---- MODULE Spec2Model ----
(***************************************************************************)
(* A model of the document extraction and matching engine of               *)
(* src/ipeds_crawler.py: text classification, header inference, deep row   *)
(* search, plain table emission, graph emission, the primary match stage   *)
(* and the no-match fallback cascade, together with the per-document and   *)
(* per-worker boundaries that call the engine.                             *)
(*                                                                         *)
(* Python strings are modelled as TLA+ strings; Len, SubSeq and \o act on  *)
(* them character by character, so substring tests, case folding,         *)
(* stripping and joining are computed, not assumed.  Only ASCII text is    *)
(* modelled: the source's arrow marker of a detail row and its en dash are *)
(* written with ASCII stand-ins (IndentMarker, HeaderRowSource).           *)
(***************************************************************************)
EXTENDS Integers, Sequences, FiniteSets, TLC

VARIABLES
    \* ---- TextClassifier harness (SpecText) ----
    text_to_search,     \* the text handed to the classifier
    second_text,        \* the row's simple_text when a row is classified
    word_list,          \* the keyword list / search term list
    tpc,                \* "input", "keyword", "table_term", "row_term"
    tret,               \* the boolean the classifier returned
    \* ---- header inference and formatter harness (SpecHeaders, SpecFormat) ----
    unit_table,         \* the table handed to header inference
    unit_headers,       \* the header list handed to the formatter
    unit_rows,          \* the data rows handed to the formatter
    upc,                \* "off", "input", "headers", "format"
    uret,               \* what the function returned
    \* ---- one call of determine_section_static (SpecSection) ----
    element_y,          \* the vertical position of the element
    element_ok,         \* whether reading that position succeeds
    \* ---- the browser session of the worker (SpecWorker) ----
    worker_driver,      \* "none", "open" or "quit"
    quits,              \* how many times worker_driver.quit() was called
    \* ---- a second visit of the same snapshot (SpecTwice) ----
    first_returned,     \* what the first visit returned
    run_no,             \* 1 during the first visit, 2 during the second
    \* ---- one document visit by one worker (Spec) ----
    doc,                \* the page's <table> elements, in document order
    markers,            \* the page's .tabtitles elements, in document order
    institution_info,   \* what extract_general_info_static read: <<key, value>> pairs
    search_terms,       \* the query: processing_input["search_terms"]
    keywords,           \* the query: processing_input["keywords"]
    worker_all_data,    \* the shared record list worker_all_data_list
    pc,                 \* the position of the visit
    section_titles_to_use, \* the allow-list of section titles
    data_tables,        \* positions in doc of the data tables
    graph_tables,       \* positions in doc of the graph widgets
    headers_cache,      \* index among data tables -> <<headers, data_start_idx>>
    matching_tables,    \* MatchInfo of the data tables matched in the primary stage
    matching_graphs,    \* MatchInfo of the widgets matched in the primary stage
    data_added,         \* find_and_process_tables_graphs_static's flag
    deep_found,         \* handle_no_matches_static's flag
    kw_tables,          \* the tables the keyword fallback selected
    loop_i,                \* the index of the running loop
    returned,           \* the rows of the data frame the worker returned
    hist                \* the steps taken so far, in order (history)

textVars == <<text_to_search, second_text, word_list, tpc, tret>>

unitVars == <<unit_table, unit_headers, unit_rows, upc, uret>>

rerunVars == <<first_returned, run_no>>

sectVars == <<element_y, element_ok>>

workerVars == <<worker_driver, quits>>

harnessVars == <<textVars, unitVars, rerunVars, sectVars, workerVars>>

docVars == <<doc, markers, institution_info, search_terms, keywords>>

visitVars == <<worker_all_data, pc, section_titles_to_use, data_tables, graph_tables,
               headers_cache, matching_tables, matching_graphs, data_added,
               deep_found, kw_tables, loop_i, returned, hist>>

engineVars == <<docVars, visitVars>>

vars == <<harnessVars, engineVars>>

(***************************************************************************)
(* Bounds of the model.                                                    *)
(***************************************************************************)
MaxTextLen == 3     \* generated classifier texts: every string up to this length
MaxWords   == 2     \* keyword / term lists hold at most this many entries
MaxTables  == 2     \* a document holds at most this many <table> elements
MaxHeaderRows == 3  \* a table handed to header inference has at most this many rows
MaxDataRows == 2    \* the formatter is handed at most this many data rows

(***************************************************************************)
(* Strings.                                                                *)
(***************************************************************************)
\* str.lower() on one character (ASCII letters).
LowerChar(c) ==
    CASE c = "A" -> "a" [] c = "B" -> "b" [] c = "C" -> "c" [] c = "D" -> "d"
      [] c = "E" -> "e" [] c = "F" -> "f" [] c = "G" -> "g" [] c = "H" -> "h"
      [] c = "I" -> "i" [] c = "J" -> "j" [] c = "K" -> "k" [] c = "L" -> "l"
      [] c = "M" -> "m" [] c = "N" -> "n" [] c = "O" -> "o" [] c = "P" -> "p"
      [] c = "Q" -> "q" [] c = "R" -> "r" [] c = "S" -> "s" [] c = "T" -> "t"
      [] c = "U" -> "u" [] c = "V" -> "v" [] c = "W" -> "w" [] c = "X" -> "x"
      [] c = "Y" -> "y" [] c = "Z" -> "z" [] OTHER -> c

\* The character at position i (from 1); "" outside the string.
CharAt(s, i) == IF 1 <= i /\ i <= Len(s) THEN SubSeq(s, i, i) ELSE ""

\* The characters i..j of s, lower-cased (computed by halves).
RECURSIVE LowerFrom(_, _, _)
LowerFrom(s, i, j) ==
    IF i > j THEN ""
    ELSE IF i = j THEN LowerChar(CharAt(s, i))
    ELSE LowerFrom(s, i, (i + j) \div 2) \o LowerFrom(s, (i + j) \div 2 + 1, j)

\* str.lower()
Lower(s) == LowerFrom(s, 1, Len(s))

\* Python's `needle in hay` on strings: a contiguous occurrence; "" is in
\* every string.
Contains(needle, hay) ==
    \/ needle = ""
    \/ \E i \in 1..(Len(hay) - Len(needle) + 1) :
          SubSeq(hay, i, i + Len(needle) - 1) = needle

IsSpace(c) == c = " "

RECURSIVE LStripFrom(_, _)
LStripFrom(s, i) ==
    IF i > Len(s) THEN ""
    ELSE IF IsSpace(CharAt(s, i)) THEN LStripFrom(s, i + 1)
    ELSE SubSeq(s, i, Len(s))

RECURSIVE RStripTo(_, _)
RStripTo(s, n) ==
    IF n = 0 THEN ""
    ELSE IF IsSpace(CharAt(s, n)) THEN RStripTo(s, n - 1)
    ELSE SubSeq(s, 1, n)

\* str.strip()
Strip(s) == LStripFrom(RStripTo(s, Len(s)), 1)

RECURSIVE JoinFrom(_, _, _)
JoinFrom(sep, parts, i) ==
    IF i > Len(parts) THEN ""
    ELSE IF i = Len(parts) THEN parts[i]
    ELSE parts[i] \o sep \o JoinFrom(sep, parts, i + 1)

\* sep.join(parts)
Join(sep, parts) == JoinFrom(sep, parts, 1)

\* Python's `a or b` on strings
OrElse(a, b) == IF a # "" THEN a ELSE b

(***************************************************************************)
(* TextClassifier.                                                         *)
(***************************************************************************)
\* The for loop of keyword_match_static from position i: the first keyword
\* that is missing returns False, the end of the list returns True.
RECURSIVE KeywordLoopMissesLower(_, _, _)
KeywordLoopMissesLower(text_lower, keywords_list, i) ==
    IF i > Len(keywords_list) THEN TRUE
    ELSE IF ~Contains(keywords_list[i], text_lower) THEN FALSE
    ELSE KeywordLoopMissesLower(text_lower, keywords_list, i + 1)

RECURSIVE KeywordLoop(_, _, _)
KeywordLoop(text_lower, keywords_list, i) ==
    IF i > Len(keywords_list) THEN TRUE
    ELSE IF ~Contains(Lower(keywords_list[i]), text_lower) THEN FALSE
    ELSE KeywordLoop(text_lower, keywords_list, i + 1)

keyword_match_static(text, keywords_list) ==
    IF keywords_list = <<>> THEN FALSE
    ELSE KeywordLoop(Lower(text), keywords_list, 1)

\* Part A of find_matching_tables_static: the loop over the search terms,
\* entered only for a non-empty list, leaving at the first term found in
\* the (already lower-cased) combined text.
RECURSIVE TableTermLoopAll(_, _, _)
TableTermLoopAll(combined, search_terms_list, i) ==
    IF i > Len(search_terms_list) THEN TRUE
    ELSE IF ~Contains(Lower(search_terms_list[i]), combined) THEN FALSE
    ELSE TableTermLoopAll(combined, search_terms_list, i + 1)

RECURSIVE TableTermLoop(_, _, _)
TableTermLoop(combined, search_terms_list, i) ==
    IF i > Len(search_terms_list) THEN FALSE
    ELSE IF Contains(Lower(search_terms_list[i]), combined) THEN TRUE
    ELSE TableTermLoop(combined, search_terms_list, i + 1)

TableTermMatch(combined, search_terms_list) ==
    search_terms_list # <<>> /\ TableTermLoop(combined, search_terms_list, 1)

\* term_hit of deep_search_in_table_static: any(term.lower() in full_text or
\* term.lower() in simple_text for term in search_terms_list or []).
RowTermHit(full_text, simple_text, search_terms_list) ==
    \E i \in 1..Len(search_terms_list) :
        \/ Contains(Lower(search_terms_list[i]), full_text)
        \/ Contains(Lower(search_terms_list[i]), simple_text)

(***************************************************************************)
(* The document: tables (data tables and graph widgets) in document        *)
(* order, and section markers (.tabtitles).                                *)
(*   table  [cls, fault, caption, thead, rows]                             *)
(*     cls     the class attribute ("graphtabs" marks a graph widget)      *)
(*     fault   "none"; "stale": every access to the element raises;        *)
(*             "children": find_element(s) on it raises; "text": reading   *)
(*             its .text raises                                            *)
(*     caption the <caption> text, "" when there is none                   *)
(*     thead   the number of leading rows that lie inside <thead>          *)
(*     rows    every <tr> of the table, in order                           *)
(*   row    [cls, cells]     cell   [tag, text, img, alt]                  *)
(*   marker [text, y]                                                      *)
(* The vertical position of the k-th table of the document is ElemY(k).    *)
(***************************************************************************)
TD(text)     == [tag |-> "td", text |-> text, img |-> FALSE, alt |-> ""]
TH(text)     == [tag |-> "th", text |-> text, img |-> FALSE, alt |-> ""]
IMG(alt)     == [tag |-> "td", text |-> "", img |-> TRUE, alt |-> alt]
Row(cells)   == [cls |-> "", cells |-> cells]
SubRow(cells) == [cls |-> "subrow level1", cells |-> cells]
Table(cls, caption, thead, rows) ==
    [cls |-> cls, fault |-> "none", caption |-> caption, thead |-> thead,
     rows |-> rows]
Faulty(t, fault) == [t EXCEPT !.fault = fault]

ElemY(k) == 10 * k

\* [f(x) for x in seq if p(x)] building blocks
RECURSIVE SelectIdx(_, _, _)
SelectIdx(seq, Keep(_), i) ==
    IF i > Len(seq) THEN <<>>
    ELSE (IF Keep(seq[i]) THEN <<i>> ELSE <<>>) \o SelectIdx(seq, Keep, i + 1)

Filter(seq, Keep(_)) ==
    LET idx == SelectIdx(seq, Keep, 1) IN [k \in 1..Len(idx) |-> seq[idx[k]]]

Map(seq, F(_)) == [k \in 1..Len(seq) |-> F(seq[k])]

IsTd(c) == c.tag = "td"
IsTh(c) == c.tag = "th"
CellText(c) == c.text
CellsByTag(row, Is(_)) == Filter(row.cells, Is)

\* str(n) for a natural number
Digit(d) ==
    CASE d = 0 -> "0" [] d = 1 -> "1" [] d = 2 -> "2" [] d = 3 -> "3"
      [] d = 4 -> "4" [] d = 5 -> "5" [] d = 6 -> "6" [] d = 7 -> "7"
      [] d = 8 -> "8" [] OTHER -> "9"

RECURSIVE NumStr(_)
NumStr(n) == IF n < 10 THEN Digit(n) ELSE NumStr(n \div 10) \o Digit(n % 10)

\* element.text of a row and of a table as the browser renders it: the
\* visible cell texts, separated by white space; image alt text is not part
\* of it.
NonEmpty(s) == s # ""
RowText(row) == Join(" ", Filter(Map(row.cells, CellText), NonEmpty))
TableText(t) ==
    Join(" ", Filter(<<t.caption>> \o Map(t.rows, RowText), NonEmpty))

(***************************************************************************)
(* HeaderInference.                                                        *)
(***************************************************************************)
HeaderLabels(cells, prefix) ==
    [k \in 1..Len(cells) |-> OrElse(Strip(cells[k].text), prefix \o NumStr(k))]

\* The header cells of the last <thead> row: its <th>, or else its <td>.
HeaderCellsInThead(thead_rows) ==
    IF thead_rows = <<>> THEN <<>>
    ELSE IF \E k \in 1..Len(thead_rows[Len(thead_rows)].cells) :
               IsTh(thead_rows[Len(thead_rows)].cells[k])
    THEN CellsByTag(thead_rows[Len(thead_rows)], IsTh)
    ELSE CellsByTag(thead_rows[Len(thead_rows)], IsTd)

\* Header inference that looks at the first row before the <thead>.
HeadersFromFirstRowFirst(header_cells_in_thead, n_thead_rows, first_row_th_cells) ==
    IF first_row_th_cells # <<>>
    THEN <<HeaderLabels(first_row_th_cells, "Row1Col"), 1>>
    ELSE IF header_cells_in_thead # <<>>
    THEN <<HeaderLabels(header_cells_in_thead, "HeadCol"), n_thead_rows>>
    ELSE <<(<<>>), 0>>

\* Attempt 1 (the <thead>), attempt 2 (the first row's <th>), or no header.
HeadersFrom(header_cells_in_thead, n_thead_rows, first_row_th_cells) ==
    IF header_cells_in_thead # <<>>
    THEN <<HeaderLabels(header_cells_in_thead, "HeadCol"), n_thead_rows>>
    ELSE IF first_row_th_cells # <<>>
    THEN <<HeaderLabels(first_row_th_cells, "Row1Col"), 1>>
    ELSE <<(<<>>), 0>>

\* Returns <<headers, data_start_idx>>.  all_rows is table.find_elements("tr").
get_table_headers_and_data_start_idx_static(table_element, all_rows) ==
    IF all_rows = <<>> THEN <<(<<>>), 0>>
    ELSE HeadersFrom(HeaderCellsInThead(SubSeq(all_rows, 1, table_element.thead)),
                     table_element.thead,
                     CellsByTag(all_rows[1], IsTh))

(***************************************************************************)
(* SectionLocator.                                                         *)
(***************************************************************************)
InSeq(x, seq) == \E k \in 1..Len(seq) : seq[k] = x

\* The loop over page_headers from position k; best_dist = -1 stands for
\* float('inf').
\* A loop that lets a later marker at the same distance replace the closest.
RECURSIVE SectionLoopLastOnTie(_, _, _, _, _, _)
SectionLoopLastOnTie(elem_y, page_headers, section_titles, k, best_dist, closest) ==
    IF k > Len(page_headers) THEN closest
    ELSE
      LET title == Strip(page_headers[k].text)
          dist  == elem_y - page_headers[k].y
      IN  IF InSeq(title, section_titles) /\ page_headers[k].readable
             /\ 0 <= dist /\ (best_dist = -1 \/ dist <= best_dist)
          THEN SectionLoopLastOnTie(elem_y, page_headers, section_titles, k + 1,
                                    dist, title)
          ELSE SectionLoopLastOnTie(elem_y, page_headers, section_titles, k + 1,
                                    best_dist, closest)

\* A marker whose position cannot be read (readable = FALSE) is passed over.
RECURSIVE SectionLoop(_, _, _, _, _, _)
SectionLoop(elem_y, page_headers, section_titles, k, best_dist, closest) ==
    IF k > Len(page_headers) THEN closest
    ELSE
      LET title == Strip(page_headers[k].text)
          dist  == elem_y - page_headers[k].y
      IN  IF InSeq(title, section_titles) /\ page_headers[k].readable
             /\ 0 <= dist /\ (best_dist = -1 \/ dist < best_dist)
          THEN SectionLoop(elem_y, page_headers, section_titles, k + 1, dist, title)
          ELSE SectionLoop(elem_y, page_headers, section_titles, k + 1,
                           best_dist, closest)

\* can_locate: whether reading the element's position succeeds.
determine_section_static(can_locate, elem_y, section_titles, page_headers) ==
    IF ~can_locate THEN "Unknown Section (JS Error)"
    ELSE IF section_titles = <<>> THEN "Unknown Section (No Titles Provided)"
    ELSE IF page_headers = <<>> THEN "Unknown Section (No Headers On Page)"
    ELSE SectionLoop(elem_y, page_headers, section_titles, 1, -1,
                     "Unknown Section (No Match)")

(***************************************************************************)
(* Records: [Category, Value, Section, Source].                            *)
(***************************************************************************)
Rec(category, value, section, source) ==
    [Category |-> category, Value |-> value, Section |-> section,
     Source |-> source]

\* ASCII stand-ins for the source's arrow marker and en dash.
IndentMarker    == "  -> "
HeaderRowSource == "Deep Table Search - Table Headers"

Tail1(seq) == SubSeq(seq, 2, Len(seq))

\* v if v and v != "-" else "blank"
BlankIfAbsent(v) == IF v # "" /\ v # "-" THEN v ELSE "blank"

\* [h for h in headers[1:] if h.strip()]
HeaderRest(headers) ==
    LET Labelled(h) == Strip(h) # "" IN Filter(Tail1(headers), Labelled)

emit_cached_header_row(headers, section_name) ==
    <<Rec(IF headers # <<>> THEN OrElse(Strip(headers[1]), "blank") ELSE "blank",
          OrElse(Join("; ", HeaderRest(headers)), "blank"),
          section_name, HeaderRowSource)>>

(***************************************************************************)
(* DeepRowSearch.                                                          *)
(***************************************************************************)
\* headers_cache.get(index, ([], 0)); the entry of index k (from 0) is kept at
\* position k + 1 of the sequence.
CacheGet(cache, index) ==
    IF index + 1 \in DOMAIN cache THEN cache[index + 1]
    ELSE <<(<<>>), 0>>

\* The cell values of a row: the stripped text, or the stripped alt text of
\* the cell's image when the text is empty and the alt text is not.
CellVal(c) == OrElse(Strip(c.text), IF c.img THEN Strip(c.alt) ELSE "")

\* A label that is empty where the header is missing.
HeaderOrNothing(headers, i) ==
    IF i < Len(headers) THEN headers[i + 1] ELSE ""

\* headers[i] if i < len(headers) and headers[i] else f"Col{i}"   (i from 0)
HeaderOrCol(headers, i) ==
    IF i < Len(headers) /\ headers[i + 1] # "" THEN headers[i + 1]
    ELSE "Col" \o NumStr(i)

FullText(headers, vals) ==
    Lower(Join(" ", [k \in 1..Len(vals) |->
                        HeaderOrCol(headers, k - 1) \o " " \o vals[k]]))

SimpleText(vals) == Join(" ", Map(vals, Lower))

HasSubrow(row) == Contains("subrow", row.cls)

\* The detail loop over all_rows[idx+1:], from row k: stops at the next
\* group header, skips rows without <td>.
StrippedTexts(cells) == [j \in 1..Len(cells) |-> Strip(cells[j].text)]

DetailRec(dvals, section_name) ==
    Rec(IndentMarker \o dvals[1], Join("; ", Map(Tail1(dvals), BlankIfAbsent)),
        section_name, "DeepSearch - Subrow Detail")

HasTd(row) == \E k \in 1..Len(row.cells) : IsTd(row.cells[k])

\* A detail loop that ends at a row without <td> instead of passing over it.
RECURSIVE DetailLoopStopsAtNoTd(_, _, _)
DetailLoopStopsAtNoTd(all_rows, k, section_name) ==
    IF k > Len(all_rows) THEN <<>>
    ELSE IF HasSubrow(all_rows[k]) \/ ~HasTd(all_rows[k]) THEN <<>>
    ELSE <<DetailRec(StrippedTexts(CellsByTag(all_rows[k], IsTd)), section_name)>>
         \o DetailLoopStopsAtNoTd(all_rows, k + 1, section_name)

RECURSIVE DetailLoopNoBreak(_, _, _)
DetailLoopNoBreak(all_rows, k, section_name) ==
    IF k > Len(all_rows) THEN <<>>
    ELSE IF HasSubrow(all_rows[k]) \/ ~HasTd(all_rows[k])
    THEN DetailLoopNoBreak(all_rows, k + 1, section_name)
    ELSE <<DetailRec(StrippedTexts(CellsByTag(all_rows[k], IsTd)), section_name)>>
         \o DetailLoopNoBreak(all_rows, k + 1, section_name)

RECURSIVE DetailLoop(_, _, _)
DetailLoop(all_rows, k, section_name) ==
    IF k > Len(all_rows) THEN <<>>
    ELSE IF HasSubrow(all_rows[k]) THEN <<>>
    ELSE IF ~HasTd(all_rows[k]) THEN DetailLoop(all_rows, k + 1, section_name)
    ELSE <<DetailRec(StrippedTexts(CellsByTag(all_rows[k], IsTd)), section_name)>>
         \o DetailLoop(all_rows, k + 1, section_name)

\* The records of a row that matched.
MatchedRowRecsWholeRow(all_rows, k, vals, term_hit, section_name) ==
    IF HasSubrow(all_rows[k])
    THEN <<Rec(vals[1], "", section_name, "DeepSearch - Subrow Group")>>
         \o DetailLoop(all_rows, k + 1, section_name)
    ELSE <<Rec(vals[1], Join("; ", Map(vals, BlankIfAbsent)), section_name,
               IF term_hit THEN "DeepSearch - Term Match"
               ELSE "DeepSearch - Keyword Match")>>

MatchedRowRecs(all_rows, k, vals, term_hit, section_name) ==
    IF HasSubrow(all_rows[k])
    THEN <<Rec(vals[1], "", section_name, "DeepSearch - Subrow Group")>>
         \o DetailLoop(all_rows, k + 1, section_name)
    ELSE <<Rec(vals[1], Join("; ", Map(Tail1(vals), BlankIfAbsent)), section_name,
               IF term_hit THEN "DeepSearch - Term Match"
               ELSE "DeepSearch - Keyword Match")>>

\* key_hit: tried only when no term hit and there are keywords.
RowKeyHit(full_text, simple_text, keywords_list) ==
    /\ keywords_list # <<>>
    /\ \/ keyword_match_static(full_text, keywords_list)
       \/ keyword_match_static(simple_text, keywords_list)

RowOnHits(all_rows, k, vals, term_hit, key_hit, section_name) ==
    IF term_hit \/ key_hit
    THEN MatchedRowRecs(all_rows, k, vals, term_hit, section_name)
    ELSE <<>>

RowOnTexts(all_rows, k, vals, full_text, simple_text, search_terms_list, keywords_list, section_name) ==
    RowOnHits(all_rows, k, vals,
              RowTermHit(full_text, simple_text, search_terms_list),
              RowKeyHit(full_text, simple_text, keywords_list), section_name)

RowOnVals(all_rows, k, vals, headers, search_terms_list, keywords_list, section_name) ==
    RowOnTexts(all_rows, k, vals, FullText(headers, vals), SimpleText(vals),
               search_terms_list, keywords_list, section_name)

\* A row loop that does not skip the rows before data_start_idx.
RowFoundFromFirstRow(all_rows, k, headers, data_start_idx, search_terms_list, keywords_list, section_name) ==
    IF ~HasTd(all_rows[k]) THEN <<>>
    ELSE RowOnVals(all_rows, k, Map(CellsByTag(all_rows[k], IsTd), CellVal),
                   headers, search_terms_list, keywords_list, section_name)

\* What one row (position k of all_rows, from 1) adds to `found`.
RowFound(all_rows, k, headers, data_start_idx, search_terms_list, keywords_list, section_name) ==
    IF k - 1 < data_start_idx \/ ~HasTd(all_rows[k]) THEN <<>>
    ELSE RowOnVals(all_rows, k, Map(CellsByTag(all_rows[k], IsTd), CellVal),
                   headers, search_terms_list, keywords_list, section_name)

RECURSIVE FoundLoop(_, _, _, _, _, _, _)
FoundLoop(all_rows, k, headers, data_start_idx, search_terms_list, keywords_list, section_name) ==
    IF k > Len(all_rows) THEN <<>>
    ELSE RowFound(all_rows, k, headers, data_start_idx, search_terms_list,
                  keywords_list, section_name)
         \o FoundLoop(all_rows, k + 1, headers, data_start_idx,
                      search_terms_list, keywords_list, section_name)

\* Whether find_elements on the table raises.
ChildrenRaise(t) == t.fault \in {"stale", "children"}
TextRaises(t)    == t.fault \in {"stale", "text"}

SearchSeparator(section_name) ==
    Rec("--- " \o section_name \o " - SEARCH RESULTS IN TABLE ---", "",
        section_name, "Deep Table Search Section Header")

NoResult == [ok |-> FALSE, out |-> <<>>]

\* An end of the search that appends the separator before it looks at `found`.
DeepSearchEmitMarkerFirst(found, headers, section_name) ==
    IF found = <<>>
    THEN [ok |-> FALSE, out |-> <<SearchSeparator(section_name)>>]
    ELSE [ok |-> TRUE,
          out |-> <<SearchSeparator(section_name)>>
                  \o emit_cached_header_row(headers, section_name)
                  \o found]

\* The end of deep_search_in_table_static: nothing for an empty `found`, else
\* the separator, the cached header row and the matched rows.
DeepSearchEmit(found, headers, section_name) ==
    IF found = <<>> THEN NoResult
    ELSE [ok |-> TRUE,
          out |-> <<SearchSeparator(section_name)>>
                  \o emit_cached_header_row(headers, section_name)
                  \o found]

DeepSearchWith(table_element, hs, search_terms_list, keywords_list, section_name) ==
    DeepSearchEmit(FoundLoop(table_element.rows, 1, hs[1], hs[2],
                             search_terms_list, keywords_list, section_name),
                   hs[1], section_name)

\* Returns [ok, out]: the boolean returned and the records appended to
\* worker_all_data_list.  An exception anywhere is caught and returns False.
deep_search_in_table_static(table_element, table_index, cache, search_terms_list, keywords_list, section_name) ==
    IF ChildrenRaise(table_element) THEN NoResult
    ELSE IF table_element.rows = <<>> THEN NoResult
    ELSE DeepSearchWith(table_element, CacheGet(cache, table_index),
                        search_terms_list, keywords_list, section_name)

(***************************************************************************)
(* Plain table emission.                                                   *)
(***************************************************************************)
\* [c.text.strip() for c in cells] of the rows from data_start_idx on that
\* have <td> cells.
RowTdTexts(row) == StrippedTexts(CellsByTag(row, IsTd))

DataRows(all_rows, data_start_idx) ==
    Map(Filter(SubSeq(all_rows, data_start_idx + 1, Len(all_rows)), HasTd),
        RowTdTexts)

RegularRowRec(row_vals, n, section_name) ==
    Rec(OrElse(Strip(row_vals[1]), "blank"),
        OrElse(Join("; ", Map(Tail1(row_vals), BlankIfAbsent)), "blank"),
        section_name, "Full Table " \o n)

\* Plain emission without the header record.
RegularEmitNoHeader(data_rows, headers, n, section_name) ==
    IF data_rows = <<>> THEN NoResult
    ELSE [ok |-> TRUE,
          out |-> <<Rec("--- " \o section_name \o " - ENTIRE TABLE " \o n
                          \o " CONTENT ---", "", section_name,
                        "Full Table " \o n \o " (Header)")>>
                  \o [k \in 1..Len(data_rows) |->
                         RegularRowRec(data_rows[k], n, section_name)]]

RegularEmit(data_rows, headers, n, section_name) ==
    IF data_rows = <<>> THEN NoResult
    ELSE [ok |-> TRUE,
          out |-> <<Rec("--- " \o section_name \o " - ENTIRE TABLE " \o n
                          \o " CONTENT ---", "", section_name,
                        "Full Table " \o n \o " (Header)")>>
                  \o emit_cached_header_row(headers, section_name)
                  \o [k \in 1..Len(data_rows) |->
                         RegularRowRec(data_rows[k], n, section_name)]]

RegularWith(table_element, hs, n, section_name) ==
    RegularEmit(DataRows(table_element.rows, hs[2]), hs[1], n, section_name)

\* Returns [ok, out] like deep_search_in_table_static.
process_regular_table_static(table_element, index, cache, section_name) ==
    IF ChildrenRaise(table_element) THEN NoResult
    ELSE IF table_element.rows = <<>> THEN NoResult
    ELSE RegularWith(table_element, CacheGet(cache, index), NumStr(index + 1),
                     section_name)

(***************************************************************************)
(* TableRecordFormatter.  No function of the engine calls it: the plain    *)
(* emission of a matched table is process_regular_table_static.            *)
(***************************************************************************)
IsDigit(c) == c \in {"0", "1", "2", "3", "4", "5", "6", "7", "8", "9"}

\* year_pattern.match(str(h).strip()) for ^\d{4}-\d{4}$
IsYearHeader(h) ==
    LET t == Strip(h)
    IN  /\ Len(t) = 9
        /\ \A k \in {1, 2, 3, 4, 6, 7, 8, 9} : IsDigit(CharAt(t, k))
        /\ CharAt(t, 5) = "-"

\* for row in data_rows: the records of every row, in order.
RECURSIVE Each(_, _, _)
Each(F(_), rows, k) ==
    IF k > Len(rows) THEN <<>> ELSE F(rows[k]) \o Each(F, rows, k + 1)

Positions(seq) == [k \in 1..Len(seq) |-> k]

\* One record of a row, or none when there are no parts.
\* A record with the section name and the source exchanged.
RowRecordSwapsSource(row, parts, section_name, source) ==
    IF parts = <<>> THEN <<>>
    ELSE <<Rec(Strip(row[1]), Join("; ", parts), source, section_name)>>

RowRecord(row, parts, section_name, source) ==
    IF parts = <<>> THEN <<>>
    ELSE <<Rec(Strip(row[1]), Join("; ", parts), section_name, source)>>

\* Multi-year layout: year number k (from 1) is read from row[k].
YearParts(year_headers, row) ==
    LET Present(k) == /\ k < Len(row)
                      /\ Strip(row[k + 1]) # ""
                      /\ Strip(row[k + 1]) # "-"
        Part(k) == year_headers[k] \o ": " \o Strip(row[k + 1])
    IN  Map(Filter(Positions(year_headers), Present), Part)

\* Label-based values without the filter on empty and dash cells.
LabelValuesKeepAll(row) == Map(Tail1(row), Strip)

LabelValues(row) ==
    LET Kept(v) == Strip(v) # "" /\ v # "-"
    IN  Map(Filter(Tail1(row), Kept), Strip)

\* Column parts that take a blank header as the label.
ColumnPartsBlankLabel(headers, row) ==
    LET Present(c) == Strip(row[c + 1]) # "" /\ Strip(row[c + 1]) # "-"
        Hdr(c)  == IF c < Len(headers) THEN Strip(headers[c + 1])
                   ELSE "Col" \o NumStr(c)
        Part(c) == Hdr(c) \o ": " \o Strip(row[c + 1])
    IN  Map(Filter([c \in 1..(Len(row) - 1) |-> c], Present), Part)

ColumnParts(headers, row) ==
    LET Present(c) == Strip(row[c + 1]) # "" /\ Strip(row[c + 1]) # "-"
        Hdr(c)  == IF c < Len(headers)
                   THEN OrElse(Strip(headers[c + 1]), "Col" \o NumStr(c))
                   ELSE "Col" \o NumStr(c)
        Part(c) == Hdr(c) \o ": " \o Strip(row[c + 1])
    IN  Map(Filter([c \in 1..(Len(row) - 1) |-> c], Present), Part)

FormatWith(year_headers, headers, data_rows, section_name, source_description) ==
    LET YearRec(row) ==
            IF Len(row) < 2 THEN <<>>
            ELSE RowRecord(row, YearParts(year_headers, row), section_name,
                           source_description \o " (all years)")
        LabelRec(row) ==
            IF row = <<>> THEN <<>>
            ELSE <<Rec(Strip(row[1]), Join("; ", LabelValues(row)), section_name,
                       source_description)>>
        ColRec(row) ==
            IF row = <<>> THEN <<>>
            ELSE RowRecord(row, ColumnParts(headers, row), section_name,
                           source_description)
    IN  IF year_headers # <<>> THEN Each(YearRec, data_rows, 1)
        ELSE IF headers = <<>> \/ (Len(headers) = 1 /\ Strip(headers[1]) = "")
        THEN Each(LabelRec, data_rows, 1)
        ELSE Each(ColRec, data_rows, 1)

\* The formatter as the comment of line 398 describes the detection: a
\* multi-year layout needs at least two YYYY-YYYY headers.
AddTableNeedsTwoYears(headers, data_rows, section_name, source_description) ==
    FormatWith(IF Len(Filter(Tail1(headers), IsYearHeader)) >= 2
               THEN Filter(Tail1(headers), IsYearHeader) ELSE <<>>,
               headers, data_rows, section_name, source_description)

\* Returns the records appended to worker_all_data_list.
add_table_to_data_static(headers, data_rows, section_name, source_description) ==
    FormatWith(Filter(Tail1(headers), IsYearHeader), headers, data_rows,
               section_name, source_description)

(***************************************************************************)
(* GraphExtractor.                                                         *)
(***************************************************************************)
UpperChar(c) ==
    CASE c = "a" -> "A" [] c = "b" -> "B" [] c = "c" -> "C" [] c = "d" -> "D"
      [] c = "e" -> "E" [] c = "f" -> "F" [] c = "g" -> "G" [] c = "h" -> "H"
      [] c = "i" -> "I" [] c = "j" -> "J" [] c = "k" -> "K" [] c = "l" -> "L"
      [] c = "m" -> "M" [] c = "n" -> "N" [] c = "o" -> "O" [] c = "p" -> "P"
      [] c = "q" -> "Q" [] c = "r" -> "R" [] c = "s" -> "S" [] c = "t" -> "T"
      [] c = "u" -> "U" [] c = "v" -> "V" [] c = "w" -> "W" [] c = "x" -> "X"
      [] c = "y" -> "Y" [] c = "z" -> "Z" [] OTHER -> c

RECURSIVE UpperFrom(_, _, _)
UpperFrom(s, i, j) ==
    IF i > j THEN ""
    ELSE IF i = j THEN UpperChar(CharAt(s, i))
    ELSE UpperFrom(s, i, (i + j) \div 2) \o UpperFrom(s, (i + j) \div 2 + 1, j)

\* str.upper()
Upper(s) == UpperFrom(s, 1, Len(s))

\* The position after the longest run of digits of s that starts at q.
RECURSIVE DigitsEnd(_, _)
DigitsEnd(s, q) ==
    IF q <= Len(s) /\ IsDigit(CharAt(s, q)) THEN DigitsEnd(s, q + 1) ELSE q

\* (\d+(?:\.\d+)?)% matched at position q of s, where the digits from q end
\* before e1 and the digits after the character at e1 end before e2: the
\* number, or "" for no match.
NumberSpan(s, q, e1, e2) ==
    IF e1 = q THEN ""
    ELSE IF CharAt(s, e1) = "." /\ e2 > e1 + 1 /\ CharAt(s, e2) = "%"
    THEN SubSeq(s, q, e2 - 1)
    ELSE IF CharAt(s, e1) = "%" THEN SubSeq(s, q, e1 - 1)
    ELSE ""

NumberFrom(s, q, e1) == NumberSpan(s, q, e1, DigitsEnd(s, e1 + 1))

NumberAt(s, q) == NumberFrom(s, q, DigitsEnd(s, q))

FirstOf(S) == CHOOSE x \in S : \A y \in S : x <= y

NumberAtFirst(s, S) == IF S = {} THEN "" ELSE NumberAt(s, FirstOf(S))

\* The first number with a percent sign at or after position q of s, or "".
ScanNumber(s, q) ==
    NumberAtFirst(s, {k \in q..Len(s) : NumberAt(s, k) # ""})

ScanAfterFirst(term_upper, alt_upper, S) ==
    IF S = {} THEN ""
    ELSE ScanNumber(alt_upper, FirstOf(S) + Len(term_upper))

\* re.search(rf"{re.escape(TERM)}.*?(\d+(?:\.\d+)?)%", alt_upper).group(1), or ""
\* when there is no match: the leftmost occurrence of the term that a number
\* with a percent sign follows, and the first such number.
MetricInAlt(term_upper, alt_upper) ==
    ScanAfterFirst(term_upper, alt_upper,
                   {p \in 1..(Len(alt_upper) - Len(term_upper) + 1) :
                       /\ SubSeq(alt_upper, p, p + Len(term_upper) - 1) = term_upper
                       /\ ScanNumber(alt_upper, p + Len(term_upper)) # ""})

\* The <img> elements of a widget, in document order: their alt attributes.
RECURSIVE RowsCells(_, _)
RowsCells(rows, k) ==
    IF k > Len(rows) THEN <<>> ELSE rows[k].cells \o RowsCells(rows, k + 1)

HasImg(c) == c.img
CellAlt(c) == c.alt
ImageAlts(t) == Map(Filter(RowsCells(t.rows, 1), HasImg), CellAlt)

\* The text of the first "thead th" element; <<>> when there is none.
TheadThTexts(t) ==
    Map(Filter(RowsCells(SubSeq(t.rows, 1, t.thead), 1), IsTh), CellText)

\* One image: [alt, extracted_data], extracted_data a sequence of
\* <<term, number>> in the order of the search terms.
ImageInfo(alt, alt_upper, search_terms_list) ==
    LET Hit(term)  == MetricInAlt(Upper(term), alt_upper) # ""
        Pair(term) == <<term, MetricInAlt(Upper(term), alt_upper)>>
    IN  [alt |-> alt, extracted_data |-> Map(Filter(search_terms_list, Hit), Pair)]

GraphTitleOf(texts) == IF texts # <<>> THEN Strip(texts[1]) ELSE "Unknown Graph"

ImageKept(info) == info.extracted_data # <<>> \/ info.alt # ""

\* Returns [title, images].  A failing lookup of the title leaves "Unknown
\* Graph"; a failing lookup of the images leaves none.
extract_graph_data_static(container, search_terms_list) ==
    IF ChildrenRaise(container) THEN [title |-> "Unknown Graph", images |-> <<>>]
    ELSE [title  |-> GraphTitleOf(TheadThTexts(container)),
          images |-> LET Info(alt) == ImageInfo(alt, Upper(alt), search_terms_list)
                     IN  Filter(Map(ImageAlts(container), Info), ImageKept)]

\* The metric records of image j from entry k of its extracted_data on.
RECURSIVE MetricRecs(_, _, _, _, _)
MetricRecs(data, j, k, section_name, source_prefix) ==
    IF k > Len(data) THEN <<>>
    ELSE <<Rec(data[k][1], data[k][2] \o "%", section_name,
               source_prefix \o " - Image " \o NumStr(j))>>
         \o MetricRecs(data, j, k + 1, section_name, source_prefix)

\* The records of the images from image j on: the alt text, then the metrics.
RECURSIVE ImageRecs(_, _, _, _)
ImageRecs(images, j, section_name, source_prefix) ==
    IF j > Len(images) THEN <<>>
    ELSE (IF images[j].alt # ""
          THEN <<Rec("Image " \o NumStr(j) \o " Description", images[j].alt,
                     section_name, source_prefix)>>
          ELSE <<>>)
         \o MetricRecs(images[j].extracted_data, j, 1, section_name, source_prefix)
         \o ImageRecs(images, j + 1, section_name, source_prefix)

GraphRecords(graph_data, source_prefix, section_name) ==
    IF graph_data.title = "Unknown Graph" /\ graph_data.images = <<>> THEN <<>>
    ELSE <<Rec("--- " \o section_name \o " - " \o source_prefix \o " ---", "",
               section_name, source_prefix \o " (Header)")>>
         \o (IF graph_data.title # "Unknown Graph"
             THEN <<Rec("Graph Title", graph_data.title, section_name,
                        source_prefix)>>
             ELSE <<>>)
         \o ImageRecs(graph_data.images, 1, section_name, source_prefix)

GraphRecordsOf(graph_data, index, section_name) ==
    GraphRecords(graph_data,
                 "Graph " \o NumStr(index + 1) \o " (" \o graph_data.title \o ")",
                 section_name)

\* Returns the records appended to worker_all_data_list (none for a widget
\* without data).
process_graph_table_static(graph_element, index, section_name, search_terms_list) ==
    GraphRecordsOf(extract_graph_data_static(graph_element, search_terms_list),
                   index, section_name)

(***************************************************************************)
(* MatchOrchestrator: discovery.                                           *)
(***************************************************************************)
IsGraphTable(t) == Contains("graphtabs", t.cls)

\* The section of the table at position pos of the document.
SectionOf(pos, titles) ==
    determine_section_static(doc[pos].fault # "stale", ElemY(pos), titles, markers)

\* combined_searchable_text of find_matching_tables_static
CombinedSearchableText(t, section_name) ==
    LET texts_to_check ==
            (IF TextRaises(t) THEN <<>> ELSE <<Lower(TableText(t))>>)
            \o (IF ChildrenRaise(t) \/ t.caption = "" THEN <<>>
                ELSE <<Lower(t.caption)>>)
            \o (IF ChildrenRaise(t) THEN <<>> ELSE Map(TheadThTexts(t), Lower))
            \o (IF section_name # "" /\ ~Contains("Unknown Section", section_name)
                THEN <<Lower(section_name)>> ELSE <<>>)
    IN  Join(" ", Filter(texts_to_check, NonEmpty))

MatchInfo(idx, match_type, section_name) ==
    [index |-> idx, match_type |-> match_type, section |-> section_name]

\* The MatchInfo of data table idx (from 0), or <<>> when it does not match:
\* a search term in the combined text, else every keyword in it.
TableMatchOn(idx, combined, section_name, terms, kws) ==
    IF TableTermMatch(combined, terms)
    THEN <<MatchInfo(idx, "exact_term", section_name)>>
    ELSE IF kws # <<>> /\ keyword_match_static(combined, kws)
    THEN <<MatchInfo(idx, "all_keywords", section_name)>>
    ELSE <<>>

TableMatchIn(idx, t, section_name, terms, kws) ==
    TableMatchOn(idx, CombinedSearchableText(t, section_name), section_name,
                 terms, kws)

\* 'element': table_element -- the position in the page of the element the
\* MatchInfo keeps next to its index.
WithElement(infos, pos) ==
    [k \in 1..Len(infos) |->
        [index |-> infos[k].index, match_type |-> infos[k].match_type,
         section |-> infos[k].section, element |-> pos]]

\* A MatchInfo whose index is the table's index among all tables of the page.
TableMatchInfoIndexInPage(idx, tables, terms, kws, titles) ==
    WithElement(TableMatchIn(tables[idx + 1] - 1, doc[tables[idx + 1]],
                             SectionOf(tables[idx + 1], titles), terms, kws),
                tables[idx + 1])

TableMatchInfo(idx, tables, terms, kws, titles) ==
    WithElement(TableMatchIn(idx, doc[tables[idx + 1]],
                             SectionOf(tables[idx + 1], titles), terms, kws),
                tables[idx + 1])

RECURSIVE MatchLoop(_, _, _, _, _, _)
MatchLoop(Info(_, _, _, _, _), idx, tables, terms, kws, titles) ==
    IF idx >= Len(tables) THEN <<>>
    ELSE Info(idx, tables, terms, kws, titles)
         \o MatchLoop(Info, idx + 1, tables, terms, kws, titles)

find_matching_tables_static(all_tables_on_page, terms, kws, titles) ==
    MatchLoop(TableMatchInfo, 0, all_tables_on_page, terms, kws, titles)

\* The title text the graph matcher reads: the first element matching
\* "thead th, caption" (a caption precedes the header rows of its table).
FirstOrEmpty(texts) == IF texts # <<>> THEN Lower(Strip(texts[1])) ELSE ""

GraphTitleText(t) ==
    IF t.caption # "" THEN Lower(Strip(t.caption))
    ELSE FirstOrEmpty(TheadThTexts(t))

GraphAltText(t) ==
    LET Norm(a) == Lower(Strip(a))
    IN  Join(" ", Filter(Map(ImageAlts(t), Norm), NonEmpty))

\* The graph matcher in force: the second definition of
\* find_matching_graph_tables_static, which replaces the first when the
\* module is loaded.
GraphMatchOn(idx, title_text, alt_text, container_text, section_name, terms, kws) ==
    LET TermIn(term) == \/ Contains(Lower(term), title_text)
                        \/ Contains(Lower(term), alt_text)
                        \/ Contains(Lower(term), container_text)
    IN  IF Filter(terms, TermIn) # <<>>
        THEN <<MatchInfo(idx, "term_match_graph", section_name)>>
        ELSE IF kws # <<>> /\ (\/ keyword_match_static(container_text, kws)
                               \/ keyword_match_static(title_text, kws)
                               \/ keyword_match_static(alt_text, kws))
        THEN <<MatchInfo(idx, "keyword_graph", section_name)>>
        ELSE <<>>

GraphMatchIn(idx, t, section_name, terms, kws) ==
    IF t.fault # "none" THEN <<>>
    ELSE GraphMatchOn(idx, GraphTitleText(t), GraphAltText(t),
                      Lower(Strip(TableText(t))), section_name, terms, kws)

GraphMatchInfo(idx, tables, terms, kws, titles) ==
    WithElement(GraphMatchIn(idx, doc[tables[idx + 1]],
                             SectionOf(tables[idx + 1], titles), terms, kws),
                tables[idx + 1])

find_matching_graph_tables_static(all_graph_elements_on_page, terms, kws, titles) ==
    MatchLoop(GraphMatchInfo, 0, all_graph_elements_on_page, terms, kws, titles)

(***************************************************************************)
(* The per-document and per-worker boundaries.                             *)
(***************************************************************************)
\* The records add_general_info_to_data_static appends.
add_general_info_to_data_static(info, search_terms_list) ==
    LET Hit(pair) == \E k \in 1..Len(search_terms_list) :
                        \/ Contains(Lower(search_terms_list[k]), Lower(pair[1]))
                        \/ Contains(Lower(search_terms_list[k]), Lower(pair[2]))
        should_add_section ==
            search_terms_list = <<>> \/ Filter(info, Hit) # <<>>
        InfoRec(pair) == Rec(pair[1], pair[2], "General Information",
                             "Institution Dashboard")
    IN  IF info = <<>> \/ ~should_add_section THEN <<>>
        ELSE <<Rec("GENERAL INFORMATION", "", "General Information",
                   "Institution Dashboard")>>
             \o Map(info, InfoRec)

\* section_titles_to_use of process_institution_page_static.
RECURSIVE TitlesFromStart(_, _, _)
TitlesFromStart(titles, k, started) ==
    IF k > Len(titles) THEN <<>>
    ELSE LET now == started \/ Upper(titles[k]) = "GENERAL INFORMATION"
         IN  (IF now THEN <<titles[k]>> ELSE <<>>)
             \o TitlesFromStart(titles, k + 1, now)

MarkerTitle(m) == Strip(m.text)

SectionTitlesFrom(all_page_section_titles, from_start) ==
    IF from_start = <<>> THEN all_page_section_titles ELSE from_start

SectionTitlesOf(all_page_section_titles) ==
    SectionTitlesFrom(all_page_section_titles,
                      TitlesFromStart(all_page_section_titles, 1, FALSE))

SectionTitlesToUse(page_markers) ==
    SectionTitlesOf(Filter(Map(page_markers, MarkerTitle), NonEmpty))

(***************************************************************************)
(* The documents and queries the visit is checked on.                      *)
(***************************************************************************)
\* A wide multi-year table with a structured header region.
RetentionTable ==
    Table("tabular", "", 1,
          <<Row(<<TH("Category"), TH("2020-2021"), TH("2021-2022")>>),
            Row(<<TD("Retention rate"), TD("82%"), TD("85%")>>),
            Row(<<TD("Transfer rate"), TD("-"), TD("-")>>)>>)

\* Two groups: a group header, three detail rows, a second group header and
\* its detail row.
GroupTable ==
    Table("tabular", "", 0,
          <<SubRow(<<TD("Enrollment"), TD("")>>),
            Row(<<TD("Math"), TD("120")>>),
            Row(<<TD("Art"), TD("-")>>),
            Row(<<TD("History"), TD("45")>>),
            SubRow(<<TD("Faculty"), TD("")>>),
            Row(<<TD("Tenured"), TD("30")>>)>>)

\* A table without any header markup.
LabelTable ==
    Table("", "", 0,
          <<Row(<<TD("Total cost"), TD("$25,000")>>),
            Row(<<TD("Net price"), TD("$18,500")>>)>>)

\* Header cells in the first row, one of them a dash.
DashHeaderTable ==
    Table("tabular", "", 0,
          <<Row(<<TH("Aid"), TH("-"), TH("Rate")>>),
            Row(<<TD("Grad rate"), TD("-"), TD("61%")>>)>>)

\* A caption and a header row, and no data row.
HeaderOnlyTable ==
    Table("tabular", "Retention rate summary", 1, <<Row(<<TH("Year")>>)>>)

\* The only mention of the term is the alt text of an image in an empty cell.
ImageCellTable ==
    Table("", "", 0, <<Row(<<TD("Chart"), IMG("Retention rate 82%")>>)>>)

\* The two keywords stand in different rows.
SplitKeywordTable ==
    Table("", "", 0,
          <<Row(<<TD("Retention"), TD("5")>>), Row(<<TD("Rate"), TD("7")>>)>>)

\* A graph widget with a title and an image.
PercentGraph ==
    Table("graphtabs", "", 1,
          <<Row(<<TH("Retention graph")>>),
            Row(<<IMG("Retention rate 82.5% of 2021")>>)>>)

\* A graph widget with visible text, no title and no image.
TextOnlyGraph ==
    Table("tab graphtabs", "", 0, <<Row(<<TD("Retention trend")>>)>>)

TableCatalogue ==
    {RetentionTable, GroupTable, LabelTable, DashHeaderTable, HeaderOnlyTable,
     ImageCellTable, SplitKeywordTable, PercentGraph, TextOnlyGraph,
     Faulty(LabelTable, "stale"), Faulty(RetentionTable, "children"),
     Faulty(SplitKeywordTable, "text")}

RECURSIVE SeqsUpTo(_, _)
SeqsUpTo(S, n) ==
    IF n = 0 THEN {<<>>}
    ELSE SeqsUpTo(S, n - 1)
         \cup {Append(q, x) : q \in {r \in SeqsUpTo(S, n - 1) : Len(r) = n - 1},
                              x \in S}

Documents == SeqsUpTo(TableCatalogue, MaxTables)

Marker(text, y) == [text |-> text, y |-> y, readable |-> TRUE]

\* A marker for which reading the position raises.
UnreadableMarker(text, y) == [text |-> text, y |-> y, readable |-> FALSE]

MarkerCatalogue ==
    {<<>>,
     <<Marker("General Information", 0), Marker(" Retention ", 15),
       Marker("Notes", 15)>>}

Query(terms, kws) == [search_terms |-> terms, keywords |-> kws]

QueryCatalogue ==
    {Query(<<>>, <<>>),
     Query(<<"retention">>, <<>>),
     Query(<<>>, <<"retention", "rate">>),
     Query(<<"grad rate", "graduation rate">>, <<"grad", "rate", "graduation">>),
     Query(<<"math">>, <<"math">>),
     Query(<<"Enrollment">>, <<>>)}

InstitutionInfo == <<(<<"Institution Name", "Retention College">>)>>

(***************************************************************************)
(* One document visit: scrape_college_data_worker from step 6 on.          *)
(***************************************************************************)
Ev(ev, idx, ok) == [ev |-> ev, idx |-> idx, ok |-> ok]

TextIdle ==
    /\ text_to_search = "" /\ second_text = "" /\ word_list = <<>>
    /\ tpc = "off" /\ tret = FALSE

UnitIdle ==
    /\ unit_table = Table("", "", 0, <<>>)
    /\ unit_headers = <<>> /\ unit_rows = <<>>
    /\ upc = "off" /\ uret = <<>>

FirstRun == first_returned = <<>> /\ run_no = 1

SectionIdle == element_y = 0 /\ element_ok = TRUE

\* The session is open from step 2 of the worker on.
WorkerIdle == worker_driver = "open" /\ quits = 0

Init ==
    /\ TextIdle
    /\ UnitIdle
    /\ FirstRun /\ SectionIdle /\ WorkerIdle
    /\ doc \in Documents
    /\ markers \in MarkerCatalogue
    /\ institution_info = InstitutionInfo
    /\ \E q \in QueryCatalogue :
          search_terms = q.search_terms /\ keywords = q.keywords
    /\ worker_all_data = <<>>
    /\ pc = "general_info"
    /\ section_titles_to_use = <<>>
    /\ data_tables = <<>>
    /\ graph_tables = <<>>
    /\ headers_cache = <<>>
    /\ matching_tables = <<>>
    /\ matching_graphs = <<>>
    /\ data_added = FALSE
    /\ deep_found = FALSE
    /\ kw_tables = <<>>
    /\ loop_i = 0
    /\ returned = <<>>
    /\ hist = <<>>

\* Step 6 of the worker: the general information goes into the record list.
WorkerAddGeneralInfo ==
    /\ pc = "general_info"
    /\ worker_all_data' =
          worker_all_data \o add_general_info_to_data_static(institution_info,
                                                             search_terms)
    /\ pc' = "page"
    /\ hist' = Append(hist, Ev("general_info", 0, TRUE))
    /\ UNCHANGED <<section_titles_to_use, data_tables, graph_tables,
                   headers_cache, matching_tables, matching_graphs, data_added,
                   deep_found, kw_tables, loop_i, returned>>
    /\ UNCHANGED <<docVars, harnessVars>>

\* process_institution_page_static up to its call of the engine.
ProcessPageStart ==
    /\ pc = "page"
    /\ section_titles_to_use' = SectionTitlesToUse(markers)
    /\ pc' = "discover"
    /\ hist' = Append(hist, Ev("page", 0, TRUE))
    /\ UNCHANGED <<worker_all_data, data_tables, graph_tables, headers_cache,
                   matching_tables, matching_graphs, data_added, deep_found,
                   kw_tables, loop_i, returned>>
    /\ UNCHANGED <<docVars, harnessVars>>

\* Step 1 of the engine: all tables, split by the class attribute.  Reading
\* the class of a stale element raises.
Discover ==
    /\ pc = "discover"
    /\ IF \E k \in 1..Len(doc) : doc[k].fault = "stale"
       THEN /\ pc' = "raised"
            /\ hist' = Append(hist, Ev("raise_discover", 0, FALSE))
            /\ UNCHANGED <<data_tables, graph_tables>>
       ELSE /\ graph_tables' = SelectIdx(doc, IsGraphTable, 1)
            /\ data_tables' = LET IsData(t) == ~IsGraphTable(t)
                              IN  SelectIdx(doc, IsData, 1)
            /\ pc' = "cache"
            /\ hist' = Append(hist, Ev("discover", 0, TRUE))
    /\ loop_i' = 0
    /\ UNCHANGED <<worker_all_data, section_titles_to_use, headers_cache,
                   matching_tables, matching_graphs, data_added, deep_found,
                   kw_tables, returned>>
    /\ UNCHANGED <<docVars, harnessVars>>

\* Step 2: one turn of the header caching loop (or its end).
CacheHeaders ==
    /\ pc = "cache"
    /\ IF loop_i < Len(data_tables)
       THEN LET tbl == doc[data_tables[loop_i + 1]]
            IN  IF ChildrenRaise(tbl)
                THEN /\ pc' = "raised"
                     /\ hist' = Append(hist, Ev("raise_cache", loop_i, FALSE))
                     /\ UNCHANGED <<headers_cache, loop_i>>
                ELSE /\ headers_cache' =
                          Append(headers_cache,
                                 get_table_headers_and_data_start_idx_static(
                                     tbl, tbl.rows))
                     /\ loop_i' = loop_i + 1
                     /\ hist' = Append(hist, Ev("cache", loop_i, TRUE))
                     /\ pc' = pc
       ELSE /\ pc' = "match_tables"
            /\ UNCHANGED <<headers_cache, loop_i, hist>>
    /\ UNCHANGED <<worker_all_data, section_titles_to_use, data_tables,
                   graph_tables, matching_tables, matching_graphs, data_added,
                   deep_found, kw_tables, returned>>
    /\ UNCHANGED <<docVars, harnessVars>>

\* Step 3: find_matching_tables_static over the data tables.
MatchTables ==
    /\ pc = "match_tables"
    /\ matching_tables' = find_matching_tables_static(data_tables, search_terms,
                                                      keywords, section_titles_to_use)
    /\ pc' = "match_graphs"
    /\ hist' = Append(hist, Ev("match_tables", 0, TRUE))
    /\ UNCHANGED <<worker_all_data, section_titles_to_use, data_tables,
                   graph_tables, headers_cache, matching_graphs, data_added,
                   deep_found, kw_tables, loop_i, returned>>
    /\ UNCHANGED <<docVars, harnessVars>>

\* Step 4: find_matching_graph_tables_static over the graph widgets.
MatchGraphs ==
    /\ pc = "match_graphs"
    /\ matching_graphs' = find_matching_graph_tables_static(
                              graph_tables, search_terms, keywords,
                              section_titles_to_use)
    /\ pc' = "proc_tables"
    /\ loop_i' = 0
    /\ data_added' = FALSE
    /\ hist' = Append(hist, Ev("match_graphs", 0, TRUE))
    /\ UNCHANGED <<worker_all_data, section_titles_to_use, data_tables,
                   graph_tables, headers_cache, matching_tables, deep_found,
                   kw_tables, returned>>
    /\ UNCHANGED <<docVars, harnessVars>>

\* One matched table of process_matching_elements_static: the result of the
\* deep search, and of the plain emission that runs when it returned False.
ProcTableResult(idx, deep, reg) ==
    /\ worker_all_data' = worker_all_data \o (IF deep.ok THEN deep.out ELSE reg.out)
    /\ data_added' = (data_added \/ deep.ok \/ reg.ok)
    /\ hist' = hist \o <<Ev("deep", idx, deep.ok)>>
                    \o (IF deep.ok THEN <<>> ELSE <<Ev("regular", idx, reg.ok)>>)

ProcTableOf(tbl, el) ==
    ProcTableResult(tbl.index,
                    deep_search_in_table_static(el, tbl.index, headers_cache,
                                                search_terms, keywords, tbl.section),
                    process_regular_table_static(el, tbl.index, headers_cache,
                                                 tbl.section))

\* Step 5, tables: one turn of process_matching_elements_static's loop over
\* the matched tables: deep search, and plain emission when it returns False.
ProcTables ==
    /\ pc = "proc_tables"
    /\ IF loop_i < Len(matching_tables)
       THEN /\ ProcTableOf(matching_tables[loop_i + 1],
                           doc[matching_tables[loop_i + 1].element])
            /\ loop_i' = loop_i + 1
            /\ pc' = pc
       ELSE /\ pc' = "proc_graphs"
            /\ loop_i' = 0
            /\ UNCHANGED <<worker_all_data, data_added, hist>>
    /\ UNCHANGED <<section_titles_to_use, data_tables, graph_tables,
                   headers_cache, matching_tables, matching_graphs, deep_found,
                   kw_tables, returned>>
    /\ UNCHANGED <<docVars, harnessVars>>

\* What follows the primary stage: the fallback when no data was added.
DataAddedAlways(added) == TRUE

AfterPrimary(added) == added

\* A flag that a matched widget sets only when it gave records.
DataAddedIfGraphRecords(added, out) == added \/ out # <<>>

\* data_added = True after every matched widget, whatever it appended.
DataAddedAfterGraph(added, out) == TRUE

\* A graph stage that puts its records in front of the list.
ProcGraphResultInFront(idx, out) ==
    /\ worker_all_data' = out \o worker_all_data
    /\ data_added' = DataAddedAfterGraph(data_added, out)
    /\ hist' = Append(hist, Ev("graph", idx, out # <<>>))

\* One matched graph of process_matching_elements_static.
ProcGraphResult(idx, out) ==
    /\ worker_all_data' = worker_all_data \o out
    /\ data_added' = DataAddedAfterGraph(data_added, out)
    /\ hist' = Append(hist, Ev("graph", idx, out # <<>>))

ProcGraphOf(g) ==
    ProcGraphResult(g.index,
                    process_graph_table_static(doc[g.element],
                                               g.index, g.section, search_terms))

\* Step 5, graphs: one turn of the loop over the matched graphs, and at its
\* end step 6, the decision to run handle_no_matches_static.
ProcGraphs ==
    /\ pc = "proc_graphs"
    /\ IF loop_i < Len(matching_graphs)
       THEN /\ ProcGraphOf(matching_graphs[loop_i + 1])
            /\ loop_i' = loop_i + 1
            /\ pc' = pc
       ELSE /\ IF AfterPrimary(data_added)
               THEN pc' = "page_end" /\ hist' = hist
               ELSE /\ pc' = "fallback_deep"
                    /\ hist' = Append(hist, Ev("enter_fallback", 0, TRUE))
            /\ loop_i' = 0
            /\ UNCHANGED <<worker_all_data, data_added>>
    /\ deep_found' = FALSE
    /\ UNCHANGED <<section_titles_to_use, data_tables, graph_tables,
                   headers_cache, matching_tables, matching_graphs, kw_tables,
                   returned>>
    /\ UNCHANGED <<docVars, harnessVars>>

\* if not deep_found and keywords
KeywordStageIgnoresDeep(found, kws) == kws # <<>>

KeywordStageRuns(found, kws) == ~found /\ kws # <<>>

\* deep_found after one more table: set by a True result, never cleared.
DeepFoundAfter(found, ok) == found \/ ok

\* One table of the first loop of handle_no_matches_static.
FallbackDeepResult(idx, deep) ==
    /\ worker_all_data' = worker_all_data \o deep.out
    /\ deep_found' = DeepFoundAfter(deep_found, deep.ok)
    /\ hist' = Append(hist, Ev("fallback_deep", idx, deep.ok))

\* handle_no_matches_static, stage 1: one turn of the deep search over every
\* data table, and at its end the decision to run the keyword stage.
FallbackDeep ==
    /\ pc = "fallback_deep"
    /\ IF loop_i < Len(data_tables)
       THEN /\ FallbackDeepResult(
                    loop_i,
                    deep_search_in_table_static(
                        doc[data_tables[loop_i + 1]], loop_i, headers_cache,
                        search_terms, keywords,
                        SectionOf(data_tables[loop_i + 1], section_titles_to_use)))
            /\ loop_i' = loop_i + 1
            /\ pc' = pc
       ELSE /\ IF KeywordStageRuns(deep_found, keywords)
               THEN /\ pc' = "keyword_select"
                    /\ hist' = Append(hist, Ev("enter_keyword", 0, TRUE))
               ELSE pc' = "page_end" /\ hist' = hist
            /\ loop_i' = 0
            /\ UNCHANGED <<worker_all_data, deep_found>>
    /\ UNCHANGED <<section_titles_to_use, data_tables, graph_tables,
                   headers_cache, matching_tables, matching_graphs, data_added,
                   kw_tables, returned>>
    /\ UNCHANGED <<docVars, harnessVars>>

\* kw_tables: the data tables whose text holds every keyword.  Reading the
\* text of a table is not guarded here.
RECURSIVE KwTables(_)
KwTables(k) ==
    IF k >= Len(data_tables) THEN <<>>
    ELSE (IF keyword_match_static(Lower(TableText(doc[data_tables[k + 1]])),
                                  keywords)
          THEN <<[index |-> k, element |-> data_tables[k + 1],
                  section |-> SectionOf(data_tables[k + 1], section_titles_to_use)]>>
          ELSE <<>>)
         \o KwTables(k + 1)

\* handle_no_matches_static, stage 2: the selection loop.
FallbackKeywordSelect ==
    /\ pc = "keyword_select"
    /\ IF \E k \in 1..Len(data_tables) : TextRaises(doc[data_tables[k]])
       THEN /\ pc' = "raised"
            /\ hist' = Append(hist, Ev("raise_keyword", 0, FALSE))
            /\ UNCHANGED kw_tables
       ELSE /\ kw_tables' = KwTables(0)
            /\ pc' = "keyword_emit"
            /\ hist' = hist
    /\ loop_i' = 0
    /\ UNCHANGED <<worker_all_data, section_titles_to_use, data_tables,
                   graph_tables, headers_cache, matching_tables, matching_graphs,
                   data_added, deep_found, returned>>
    /\ UNCHANGED <<docVars, harnessVars>>

\* One table of the second loop of handle_no_matches_static.
KeywordTableResult(kt, reg) ==
    /\ worker_all_data' =
          worker_all_data \o <<SearchSeparator(kt.section)>> \o reg.out
    /\ hist' = Append(hist, Ev("keyword_table", kt.index, reg.ok))

KeywordTableOf(kt) ==
    KeywordTableResult(kt,
                       process_regular_table_static(doc[kt.element],
                                                    kt.index, headers_cache,
                                                    kt.section))

\* handle_no_matches_static, stage 2: one turn of the emission loop: the
\* separator, then the plain emission of the table.
FallbackKeywordEmit ==
    /\ pc = "keyword_emit"
    /\ IF loop_i < Len(kw_tables)
       THEN /\ KeywordTableOf(kw_tables[loop_i + 1])
            /\ loop_i' = loop_i + 1
            /\ pc' = pc
       ELSE /\ pc' = "page_end"
            /\ UNCHANGED <<worker_all_data, hist, loop_i>>
    /\ UNCHANGED <<section_titles_to_use, data_tables, graph_tables,
                   headers_cache, matching_tables, matching_graphs, data_added,
                   deep_found, kw_tables, returned>>
    /\ UNCHANGED <<docVars, harnessVars>>

\* The engine returned: process_institution_page_static ends normally.
PageEnd ==
    /\ pc = "page_end"
    /\ pc' = "package"
    /\ hist' = Append(hist, Ev("page_end", 0, TRUE))
    /\ UNCHANGED <<worker_all_data, section_titles_to_use, data_tables,
                   graph_tables, headers_cache, matching_tables, matching_graphs,
                   data_added, deep_found, kw_tables, loop_i, returned>>
    /\ UNCHANGED <<docVars, harnessVars>>

\* An exception left the engine: the except clause of
\* process_institution_page_static, which only logs; the record list keeps
\* what it held.
CatchAtPage ==
    /\ pc = "raised"
    /\ pc' = "package"
    /\ hist' = Append(hist, Ev("caught", 0, FALSE))
    /\ UNCHANGED <<worker_all_data, section_titles_to_use, data_tables, graph_tables,
                   headers_cache, matching_tables, matching_graphs, data_added,
                   deep_found, kw_tables, loop_i, returned>>
    /\ UNCHANGED <<docVars, harnessVars>>

\* Step 9 of the worker: the record list becomes the returned data frame.
WorkerPackage ==
    /\ pc = "package"
    /\ returned' = worker_all_data
    /\ pc' = "done"
    /\ hist' = Append(hist, Ev("package", 0, TRUE))
    /\ UNCHANGED <<worker_all_data, section_titles_to_use, data_tables,
                   graph_tables, headers_cache, matching_tables, matching_graphs,
                   data_added, deep_found, kw_tables, loop_i>>
    /\ UNCHANGED <<docVars, harnessVars>>

Next ==
    \/ WorkerAddGeneralInfo
    \/ ProcessPageStart
    \/ Discover
    \/ CacheHeaders
    \/ MatchTables
    \/ MatchGraphs
    \/ ProcTables
    \/ ProcGraphs
    \/ FallbackDeep
    \/ FallbackKeywordSelect
    \/ FallbackKeywordEmit
    \/ PageEnd
    \/ CatchAtPage
    \/ WorkerPackage

Spec == Init /\ [][Next]_vars

(***************************************************************************)
(* The whole of scrape_college_data_worker: the browser session is         *)
(* launched (steps 1-2), the page is loaded (steps 3-4) and the general    *)
(* information read (step 5); then the visit above; then the except and    *)
(* finally clauses.  Launching and loading can raise.                      *)
(***************************************************************************)
InitWorker ==
    /\ TextIdle
    /\ UnitIdle
    /\ FirstRun /\ SectionIdle
    /\ worker_driver = "none" /\ quits = 0
    /\ doc \in Documents
    /\ markers \in MarkerCatalogue
    /\ institution_info = InstitutionInfo
    /\ \E q \in QueryCatalogue :
          search_terms = q.search_terms /\ keywords = q.keywords
    /\ worker_all_data = <<>>
    /\ pc = "launch"
    /\ section_titles_to_use = <<>>
    /\ data_tables = <<>> /\ graph_tables = <<>> /\ headers_cache = <<>>
    /\ matching_tables = <<>> /\ matching_graphs = <<>>
    /\ data_added = FALSE /\ deep_found = FALSE /\ kw_tables = <<>>
    /\ loop_i = 0 /\ returned = <<>> /\ hist = <<>>

\* Steps 1-2: ChromeDriverManager().install() and webdriver.Chrome(...).
\* When either raises, worker_driver is still None.
WorkerLaunch ==
    /\ pc = "launch"
    /\ \E ok \in BOOLEAN :
          /\ worker_driver' = (IF ok THEN "open" ELSE "none")
          /\ pc' = (IF ok THEN "navigate" ELSE "failed")
          /\ hist' = Append(hist, Ev("launch", 0, ok))
    /\ UNCHANGED <<quits, worker_all_data, section_titles_to_use, data_tables,
                   graph_tables, headers_cache, matching_tables, matching_graphs,
                   data_added, deep_found, kw_tables, loop_i, returned>>
    /\ UNCHANGED <<docVars, textVars, unitVars, rerunVars, sectVars>>

\* Steps 3-4: worker_driver.get(...) and wait_for_page_load_static, which
\* raises again the TimeoutException of a page that does not load.
WorkerNavigate ==
    /\ pc = "navigate"
    /\ \E outcome \in {"loaded", "get_raises", "timeout"} :
          /\ pc' = (IF outcome = "loaded" THEN "extract_info" ELSE "failed")
          /\ hist' = Append(hist, Ev(outcome, 0, outcome = "loaded"))
    /\ UNCHANGED <<worker_driver, quits, worker_all_data, section_titles_to_use,
                   data_tables, graph_tables, headers_cache, matching_tables,
                   matching_graphs, data_added, deep_found, kw_tables, loop_i,
                   returned>>
    /\ UNCHANGED <<docVars, textVars, unitVars, rerunVars, sectVars>>

\* Step 5: extract_general_info_static, which catches what it raises and
\* returns the dictionary as far as it was read.
WorkerExtractInfo ==
    /\ pc = "extract_info"
    /\ pc' = "general_info"
    /\ hist' = Append(hist, Ev("extract_info", 0, TRUE))
    /\ UNCHANGED <<worker_driver, quits, worker_all_data, section_titles_to_use,
                   data_tables, graph_tables, headers_cache, matching_tables,
                   matching_graphs, data_added, deep_found, kw_tables, loop_i,
                   returned>>
    /\ UNCHANGED <<docVars, textVars, unitVars, rerunVars, sectVars>>

\* The except clause of the worker: return institution_name, pd.DataFrame()
WorkerExcept ==
    /\ pc = "failed"
    /\ returned' = <<>>
    /\ pc' = "done"
    /\ hist' = Append(hist, Ev("worker_except", 0, FALSE))
    /\ UNCHANGED <<worker_driver, quits, worker_all_data, section_titles_to_use,
                   data_tables, graph_tables, headers_cache, matching_tables,
                   matching_graphs, data_added, deep_found, kw_tables, loop_i>>
    /\ UNCHANGED <<docVars, textVars, unitVars, rerunVars, sectVars>>

\* The finally clause: if worker_driver: worker_driver.quit()
WorkerFinally ==
    /\ pc = "done"
    /\ IF worker_driver = "open"
       THEN worker_driver' = "quit" /\ quits' = quits + 1
       ELSE UNCHANGED <<worker_driver, quits>>
    /\ pc' = "finished"
    /\ hist' = Append(hist, Ev("finally", 0, TRUE))
    /\ UNCHANGED <<worker_all_data, section_titles_to_use, data_tables,
                   graph_tables, headers_cache, matching_tables, matching_graphs,
                   data_added, deep_found, kw_tables, loop_i, returned>>
    /\ UNCHANGED <<docVars, textVars, unitVars, rerunVars, sectVars>>

NextWorker ==
    \/ WorkerLaunch
    \/ WorkerNavigate
    \/ WorkerExtractInfo
    \/ Next
    \/ WorkerExcept
    \/ WorkerFinally

SpecWorker == InitWorker /\ [][NextWorker]_vars

(***************************************************************************)
(* One call of deep_search_in_table_static: on every data table of the     *)
(* catalogue, readable or not, with the header cache entry built from its  *)
(* rows (the handle may have gone stale after the cache was built), every  *)
(* query of the catalogue, and a record list that is empty or not.         *)
(***************************************************************************)
DeepSection == "Admissions"

\* A <thead> row made of <td> cells and a row made of <th> cells both hold the
\* term; they are not data rows.
HeaderMatchTable ==
    Table("", "", 1,
          <<Row(<<TD("Retention"), TD("Years")>>),
            Row(<<TD("Math"), TD("5")>>),
            Row(<<TH("Retention")>>),
            Row(<<TD("Art"), TD("retention 7")>>)>>)

\* Three groups whose headers all hold the term "Enrollment": the first has a
\* row without <td> and a detail row that holds the term too, the second a
\* detail row with a dash, the third is the last row of the table.
GroupEdgeTable ==
    Table("tabular", "", 0,
          <<SubRow(<<TD("Enrollment"), TD("")>>),
            Row(<<TH("Note")>>),
            Row(<<TD("Enrollment total"), TD("9")>>),
            SubRow(<<TD("Enrollment aid")>>),
            Row(<<TD("Grants"), TD("-")>>),
            SubRow(<<TD("Enrollment abroad")>>)>>)

\* A structured header region whose first header cell is blank: header
\* inference names the column "HeadCol1".
BlankHeaderTable ==
    Table("tabular", "", 1,
          <<Row(<<TH(" "), TH("Count")>>),
            Row(<<TD("Art"), TD("7")>>)>>)

DeepTableCatalogue ==
    {t \in TableCatalogue : ~Contains("graphtabs", t.cls)}
    \cup {HeaderMatchTable, GroupEdgeTable, BlankHeaderTable,
          Faulty(GroupTable, "children"), Table("tabular", "", 0, <<>>)}

\* The queries of the catalogue, and two whose words are found in no text of
\* any table of the catalogue.
DeepQueryCatalogue ==
    QueryCatalogue \cup {Query(<<"col1">>, <<>>), Query(<<>>, <<"col0">>)}

PriorLists == {<<>>, <<SearchSeparator("Earlier section")>>}

InitDeep ==
    /\ TextIdle
    /\ FirstRun /\ SectionIdle /\ WorkerIdle
    /\ unit_table \in DeepTableCatalogue
    /\ unit_headers = <<>> /\ unit_rows = <<>>
    /\ upc = "input" /\ uret = <<>>
    /\ doc = <<>> /\ markers = <<>> /\ institution_info = <<>>
    /\ \E q \in DeepQueryCatalogue :
          search_terms = q.search_terms /\ keywords = q.keywords
    /\ worker_all_data \in PriorLists
    /\ headers_cache =
          <<get_table_headers_and_data_start_idx_static(unit_table,
                                                        unit_table.rows)>>
    /\ pc = "off" /\ section_titles_to_use = <<>>
    /\ data_tables = <<>> /\ graph_tables = <<>>
    /\ matching_tables = <<>> /\ matching_graphs = <<>>
    /\ data_added = FALSE /\ deep_found = FALSE /\ kw_tables = <<>>
    /\ loop_i = 0 /\ returned = <<>> /\ hist = <<>>

\* What the call appends and returns.
DeepSearchResult(r) ==
    /\ worker_all_data' = worker_all_data \o r.out
    /\ uret' = r.ok

\* deep_search_in_table_static(driver, table_element, 0, headers_cache,
\* search_terms_list, keywords_list, section_name, worker_all_data_list, ...)
DeepSearchTable ==
    /\ upc = "input"
    /\ DeepSearchResult(deep_search_in_table_static(unit_table, 0, headers_cache,
                                                    search_terms, keywords,
                                                    DeepSection))
    /\ upc' = "deep"
    /\ UNCHANGED <<unit_table, unit_headers, unit_rows, textVars, rerunVars,
                   sectVars, workerVars, docVars>>
    /\ UNCHANGED <<pc, section_titles_to_use, data_tables, graph_tables,
                   headers_cache, matching_tables, matching_graphs, data_added,
                   deep_found, kw_tables, loop_i, returned, hist>>

NextDeep ==
    \/ DeepSearchTable

SpecDeep == InitDeep /\ [][NextDeep]_vars

(***************************************************************************)
(* Two visits of the same snapshot with the same query: when the first is  *)
(* over, the worker is run again on the same document, from an empty       *)
(* record list.                                                            *)
(***************************************************************************)
\* A second run that goes on with the record list of the first.
RunAgainOnSameList ==
    /\ pc = "done" /\ run_no = 1
    /\ first_returned' = returned
    /\ run_no' = 2
    /\ pc' = "general_info"
    /\ section_titles_to_use' = <<>>
    /\ data_tables' = <<>> /\ graph_tables' = <<>> /\ headers_cache' = <<>>
    /\ matching_tables' = <<>> /\ matching_graphs' = <<>>
    /\ data_added' = FALSE /\ deep_found' = FALSE /\ kw_tables' = <<>>
    /\ loop_i' = 0 /\ returned' = <<>> /\ hist' = <<>>
    /\ UNCHANGED <<worker_all_data, docVars, textVars, unitVars, sectVars,
                   workerVars>>

\* scrape_college_data_worker is called again: its locals are fresh, the
\* page and the query are the same.
RunAgain ==
    /\ pc = "done" /\ run_no = 1
    /\ first_returned' = returned
    /\ run_no' = 2
    /\ worker_all_data' = <<>>
    /\ pc' = "general_info"
    /\ section_titles_to_use' = <<>>
    /\ data_tables' = <<>> /\ graph_tables' = <<>> /\ headers_cache' = <<>>
    /\ matching_tables' = <<>> /\ matching_graphs' = <<>>
    /\ data_added' = FALSE /\ deep_found' = FALSE /\ kw_tables' = <<>>
    /\ loop_i' = 0 /\ returned' = <<>> /\ hist' = <<>>
    /\ UNCHANGED <<docVars, textVars, unitVars, sectVars, workerVars>>

NextTwice ==
    \/ Next
    \/ RunAgain

SpecTwice == Init /\ [][NextTwice]_vars

(***************************************************************************)
(* The TextClassifier on generated inputs: every text over a small         *)
(* alphabet with both cases, every short list of words.                    *)
(***************************************************************************)
Alphabet == {"a", "A", "b", "B"}

WordCatalogue == {"a", "Ab", "B"}

SecondTexts == {"", "b", "aB"}

RECURSIVE StringsUpTo(_)
StringsUpTo(n) ==
    IF n = 0 THEN {""}
    ELSE StringsUpTo(n - 1)
         \cup {t \o c : t \in {u \in StringsUpTo(n - 1) : Len(u) = n - 1},
                        c \in Alphabet}

EngineIdle ==
    /\ doc = <<>> /\ markers = <<>> /\ institution_info = <<>>
    /\ search_terms = <<>> /\ keywords = <<>>
    /\ worker_all_data = <<>> /\ pc = "off" /\ section_titles_to_use = <<>>
    /\ data_tables = <<>> /\ graph_tables = <<>> /\ headers_cache = <<>>
    /\ matching_tables = <<>> /\ matching_graphs = <<>>
    /\ data_added = FALSE /\ deep_found = FALSE /\ kw_tables = <<>>
    /\ loop_i = 0 /\ returned = <<>> /\ hist = <<>>

InitText ==
    /\ EngineIdle
    /\ UnitIdle
    /\ FirstRun /\ SectionIdle /\ WorkerIdle
    /\ text_to_search \in StringsUpTo(MaxTextLen)
    /\ second_text \in SecondTexts
    /\ word_list \in SeqsUpTo(WordCatalogue, MaxWords)
    /\ tpc = "input"
    /\ tret = FALSE

\* keyword_match_static(text_to_search, keywords_list)
ClassifyKeywords ==
    /\ tpc = "input"
    /\ tret' = keyword_match_static(text_to_search, word_list)
    /\ tpc' = "keyword"
    /\ UNCHANGED <<text_to_search, second_text, word_list, unitVars, rerunVars, sectVars,
                   workerVars, engineVars>>

\* The term test of find_matching_tables_static on a table whose text is
\* text_to_search and whose caption is second_text: both are lower-cased
\* when collected, the non-empty ones are joined by a space.
ClassifyTableTerms ==
    /\ tpc = "input"
    /\ tret' = TableTermMatch(
                   Join(" ", Filter(<<Lower(text_to_search), Lower(second_text)>>,
                                    NonEmpty)),
                   word_list)
    /\ tpc' = "table_term"
    /\ UNCHANGED <<text_to_search, second_text, word_list, unitVars, rerunVars, sectVars,
                   workerVars, engineVars>>

\* The term test of deep_search_in_table_static on a row whose full_text is
\* text_to_search and whose simple_text is second_text, both lower-cased
\* when built.
ClassifyRowTerms ==
    /\ tpc = "input"
    /\ tret' = RowTermHit(Lower(text_to_search), Lower(second_text), word_list)
    /\ tpc' = "row_term"
    /\ UNCHANGED <<text_to_search, second_text, word_list, unitVars, rerunVars, sectVars,
                   workerVars, engineVars>>

NextText ==
    \/ ClassifyKeywords
    \/ ClassifyTableTerms
    \/ ClassifyRowTerms

SpecText == InitText /\ [][NextText]_vars

(***************************************************************************)
(* Header inference on generated tables: every table of up to              *)
(* MaxHeaderRows rows drawn from a catalogue of rows, with every number of *)
(* leading rows inside <thead>.                                            *)
(***************************************************************************)
HeaderRowCatalogue ==
    { Row(<<>>),
      Row(<<TH("A")>>),
      Row(<<TH(" "), TH("B ")>>),
      Row(<<TD("x"), TD("")>>),
      Row(<<TH("H"), TD("v")>>) }

HeaderTables ==
    UNION { { Table("", "", n, rows) : n \in 0..Len(rows) } :
            rows \in SeqsUpTo(HeaderRowCatalogue, MaxHeaderRows) }

InitHeaders ==
    /\ EngineIdle
    /\ TextIdle
    /\ FirstRun /\ SectionIdle /\ WorkerIdle
    /\ unit_table \in HeaderTables
    /\ unit_headers = <<>> /\ unit_rows = <<>>
    /\ upc = "input" /\ uret = <<>>

\* get_table_headers_and_data_start_idx_static(table_element, all_rows)
InferHeaders ==
    /\ upc = "input"
    /\ uret' = get_table_headers_and_data_start_idx_static(unit_table,
                                                           unit_table.rows)
    /\ upc' = "headers"
    /\ UNCHANGED <<unit_table, unit_headers, unit_rows, textVars, rerunVars, sectVars,
                   workerVars, engineVars>>

NextHeaders ==
    \/ InferHeaders

SpecHeaders == InitHeaders /\ [][NextHeaders]_vars

(***************************************************************************)
(* The formatter add_table_to_data_static on generated inputs: every       *)
(* header list of a catalogue with every list of up to MaxDataRows rows of *)
(* a catalogue of rows (lists of cell texts).                              *)
(***************************************************************************)
FormatSection == "Costs"
FormatSource  == "Table 1"

FormatHeaderCatalogue ==
    { <<>>,
      <<"">>,
      <<" ">>,
      <<"Name">>,
      <<"Program", "2019-2020", "2020-2021">>,
      <<"Program", "2019-2020">>,
      <<"Program", "Total", "2019-2020">>,
      <<"Item", " 2020-2021 ">>,
      <<"2019-2020", "Amount">>,
      <<"Name", "Amount", "">> }

FormatRowCatalogue ==
    { <<>>,
      <<"Only">>,
      <<"Total cost", "$25,000">>,
      <<"Net price", "$18,500">>,
      <<"Retention", "82%", "85%">>,
      <<" Transfer ", "-", "">>,
      <<"Aid", "", " 7 ">>,
      <<"Fees", " -", "9">>,
      <<"Long", "1", "2", "3">> }

InitFormat ==
    /\ EngineIdle
    /\ TextIdle
    /\ FirstRun /\ SectionIdle /\ WorkerIdle
    /\ unit_table = Table("", "", 0, <<>>)
    /\ unit_headers \in FormatHeaderCatalogue
    /\ unit_rows \in SeqsUpTo(FormatRowCatalogue, MaxDataRows)
    /\ upc = "input" /\ uret = <<>>

\* add_table_to_data_static(headers, data_rows, section_name,
\* source_description, ...) on an empty record list: uret is the list after
\* the call.
FormatTable ==
    /\ upc = "input"
    /\ uret' = add_table_to_data_static(unit_headers, unit_rows, FormatSection,
                                        FormatSource)
    /\ upc' = "format"
    /\ UNCHANGED <<unit_table, unit_headers, unit_rows, textVars, rerunVars, sectVars,
                   workerVars, engineVars>>

NextFormat ==
    \/ FormatTable

SpecFormat == InitFormat /\ [][NextFormat]_vars

(***************************************************************************)
(* Properties of the TextClassifier (checked under SpecText).              *)
(***************************************************************************)
\* Two characters that are the same letter, whatever their case.
SameLetter(c, d) ==
    \/ c = d
    \/ {c, d} = {"a", "A"}
    \/ {c, d} = {"b", "B"}

\* word occurs in text when case is ignored: some position of text where
\* every character of word meets the same letter.
OccursIgnoringCase(word, text) ==
    \E off \in 0..(Len(text) - Len(word)) :
        \A j \in 1..Len(word) :
            SameLetter(SubSeq(word, j, j), SubSeq(text, off + j, off + j))

\* The text of the classified table before lower-casing.
TableRawText ==
    IF text_to_search = "" THEN second_text
    ELSE IF second_text = "" THEN text_to_search
    ELSE text_to_search \o " " \o second_text

\* C1: keyword_match_static returns true if and only if the keyword list is
\* non-empty and every keyword occurs in the text when case is ignored; an
\* empty keyword list returns false for every text.
C1_KeywordMatchIff ==
    tpc = "keyword" =>
        (tret <=> /\ word_list # <<>>
                  /\ \A k \in 1..Len(word_list) :
                        OccursIgnoringCase(word_list[k], text_to_search))

\* A text that holds two different keywords, the second one first and in the
\* other case, matched.
C1_Witness ==
    /\ tpc = "keyword" /\ tret
    /\ word_list = <<"Ab", "B">>
    /\ text_to_search = "baB"

\* C2: term matching is disjunctive and ignores case: the table test and the
\* row test return true if and only if at least one search term occurs, case
\* ignored, in the table's text (for a row: in its full text or its simple
\* text).
C2_TermMatchIff ==
    /\ tpc = "table_term" =>
          (tret <=> \E k \in 1..Len(word_list) :
                       OccursIgnoringCase(word_list[k], TableRawText))
    /\ tpc = "row_term" =>
          (tret <=> \E k \in 1..Len(word_list) :
                       \/ OccursIgnoringCase(word_list[k], text_to_search)
                       \/ OccursIgnoringCase(word_list[k], second_text))

\* A table text that holds only the second of two terms, in the other case,
\* matched.
C2_Witness ==
    /\ tpc = "table_term" /\ tret
    /\ Len(word_list) = 2
    /\ ~OccursIgnoringCase(word_list[1], TableRawText)
    /\ OccursIgnoringCase(word_list[2], TableRawText)
    /\ ~Contains(word_list[2], TableRawText)

(***************************************************************************)
(* Properties of one document visit (checked under Spec).                  *)
(***************************************************************************)
Happened(ev) == \E k \in 1..Len(hist) : hist[k].ev = ev

\* The records the engine appended: all but the general information the
\* worker put in the list before the page was processed.
IsEngineRecord(r) == r.Source # "Institution Dashboard"
EngineRecords == Filter(worker_all_data, IsEngineRecord)

Brief(r) == <<r.Category, r.Value, r.Source>>

\* The records the step appends to the record list.
Appended ==
    SubSeq(worker_all_data', Len(worker_all_data) + 1, Len(worker_all_data'))

\* The step is the turn of the primary stage on a matched table equal to t.
PrimaryTurnOn(t) ==
    /\ pc = "proc_tables"
    /\ loop_i < Len(matching_tables)
    /\ doc[data_tables[matching_tables[loop_i + 1].index + 1]] = t

\* A deep search of a table equal to t is in the history.
IsDeepEventOn(e, t) ==
    /\ e.ev \in {"deep", "fallback_deep"}
    /\ doc[data_tables[e.idx + 1]] = t

RetentionQuery == search_terms = <<"retention">> /\ keywords = <<>>

IsRetentionRateRecord(r) == r.Category = "Retention rate"

IsDeepEventOnRetentionTable(e) == IsDeepEventOn(e, RetentionTable)

\* C3 (as amended): for the table with headers Category, 2020-2021, 2021-2022
\* and rows (Retention rate, 82%, 85%), (Transfer rate, -, -) and the query
\* terms = ["retention"], every deep search of the table leaves one record
\* with Category "Retention rate", whose Value is the row's raw cell values
\* "82%; 85%"; no record has Category "Transfer rate"; and for the document
\* made of that table the engine's records are the section marker, the
\* header record (Category, "2020-2021; 2021-2022") and that record.
C3_RawRowValues ==
    RetentionQuery =>
        /\ \A k \in 1..Len(worker_all_data) :
              /\ worker_all_data[k].Category # "Transfer rate"
              /\ IsRetentionRateRecord(worker_all_data[k]) =>
                    /\ worker_all_data[k].Value = "82%; 85%"
                    /\ worker_all_data[k].Source = "DeepSearch - Term Match"
        /\ Len(Filter(worker_all_data, IsRetentionRateRecord))
              = Len(Filter(hist, IsDeepEventOnRetentionTable))
        /\ (pc = "done" /\ doc = <<RetentionTable>>) =>
              /\ Len(EngineRecords) = 3
              /\ EngineRecords[1].Source = "Deep Table Search Section Header"
              /\ Brief(EngineRecords[2])
                    = <<"Category", "2020-2021; 2021-2022", HeaderRowSource>>
              /\ Brief(EngineRecords[3])
                    = <<"Retention rate", "82%; 85%", "DeepSearch - Term Match">>

\* The visit of the document made of that table ended with the record.
C3_Witness ==
    /\ pc = "done" /\ doc = <<RetentionTable>> /\ RetentionQuery
    /\ \E k \in 1..Len(returned) : IsRetentionRateRecord(returned[k])

\* C3 as stated: the record list holds one record with Category "Retention
\* rate" and Value "2020-2021: 82%; 2021-2022: 85%", and none with Category
\* "Transfer rate".
C3_Original ==
    (pc = "done" /\ doc = <<RetentionTable>> /\ RetentionQuery) =>
        /\ \E k \in 1..Len(worker_all_data) :
              /\ worker_all_data[k].Category = "Retention rate"
              /\ worker_all_data[k].Value = "2020-2021: 82%; 2021-2022: 85%"
        /\ \A k \in 1..Len(worker_all_data) :
              worker_all_data[k].Category # "Transfer rate"

IsGroupRecord(r)  == r.Source = "DeepSearch - Subrow Group"
IsDetailRecord(r) == r.Source = "DeepSearch - Subrow Detail"

\* C4 (as amended): for the table with a group header, three detail rows, a
\* second group header and its detail row, a query that matches one detail
\* row of the first group (and not the group header) makes deep search emit,
\* after the section marker and the header record, one matched-row record
\* for that row and no group or detail record; a query that matches the
\* first group header itself makes it emit one group record and the detail
\* records of exactly the three rows before the second group header.
C4_GroupExpansion ==
    [][PrimaryTurnOn(GroupTable) =>
          /\ search_terms = <<"math">> =>
                Tail1(Map(Appended, Brief))
                  = << <<"blank", "blank", HeaderRowSource>>,
                       <<"Math", "120", "DeepSearch - Term Match">> >>
          /\ search_terms = <<"Enrollment">> =>
                Tail1(Map(Appended, Brief))
                  = << <<"blank", "blank", HeaderRowSource>>,
                       <<"Enrollment", "", "DeepSearch - Subrow Group">>,
                       <<IndentMarker \o "Math", "120", "DeepSearch - Subrow Detail">>,
                       <<IndentMarker \o "Art", "blank", "DeepSearch - Subrow Detail">>,
                       <<IndentMarker \o "History", "45",
                         "DeepSearch - Subrow Detail">> >>
    ]_vars

\* The table was deep-searched with a query that matches a detail row only.
C4_Witness ==
    /\ search_terms = <<"math">>
    /\ hist # <<>>
    /\ hist[Len(hist)].ev = "deep" /\ hist[Len(hist)].ok
    /\ IsDeepEventOn(hist[Len(hist)], GroupTable)
    /\ \E k \in 1..Len(worker_all_data) : worker_all_data[k].Category = "Math"

\* C4 as stated: a match in a detail row of the first group emits exactly one
\* group record and detail records for exactly the three rows of the group.
C4_Original ==
    [][(PrimaryTurnOn(GroupTable) /\ search_terms = <<"math">>) =>
          /\ Len(Filter(Appended, IsGroupRecord)) = 1
          /\ Len(Filter(Appended, IsDetailRecord)) = 3
    ]_vars

\* The primary stage is over.
PrimaryDone ==
    Happened("enter_fallback") \/ Happened("page_end") \/ pc = "page_end"

IsEmissionEvent(e) == e.ev \in {"deep", "regular"}

\* C5 (as amended): handle_no_matches_static runs if and only if the primary
\* stage added no data: no graph widget matched, and for every matched table
\* both the deep search and the plain emission returned false.  Both match
\* lists being empty is sufficient for that, not necessary.
C5_FallbackIffNothingAdded ==
    PrimaryDone =>
        /\ Happened("enter_fallback") <=>
              /\ matching_graphs = <<>>
              /\ \A k \in 1..Len(hist) : IsEmissionEvent(hist[k]) => ~hist[k].ok
        /\ (matching_tables = <<>> /\ matching_graphs = <<>>) =>
              Happened("enter_fallback")

\* The fallback ran although a table had matched.
C5_Witness ==
    /\ Happened("enter_fallback")
    /\ matching_tables # <<>>
    /\ pc = "done"

\* C5 as stated: the fallback runs if and only if both match lists are empty.
C5_Original ==
    PrimaryDone =>
        (Happened("enter_fallback")
            <=> (matching_tables = <<>> /\ matching_graphs = <<>>))

\* Every deep search of the fallback returned false.
FallbackDeepAllFalse ==
    \A k \in 1..Len(hist) : hist[k].ev = "fallback_deep" => ~hist[k].ok

\* C6: once the fallback is entered and its deep search over the data tables
\* is over, the keyword stage runs if and only if every one of those deep
\* searches returned false and the keyword list is non-empty; and a visit
\* whose primary stage and deep-search fallback found nothing, with no
\* keywords, ends with no record appended by the engine.
C6_KeywordStageIff ==
    /\ (Happened("enter_fallback") /\ pc # "fallback_deep") =>
          (Happened("enter_keyword")
              <=> (FallbackDeepAllFalse /\ keywords # <<>>))
    /\ (pc = "done" /\ Happened("enter_fallback") /\ FallbackDeepAllFalse
          /\ keywords = <<>>) => EngineRecords = <<>>

\* The keyword stage ran and selected a table.
C6_Witness ==
    /\ Happened("enter_keyword")
    /\ Happened("keyword_table")
    /\ pc = "done"

\* C7: with no search terms and no keywords the engine runs discovery, does
\* not run the keyword stage, raises no exception and appends no record.
C7_EmptyQueryQuiet ==
    (search_terms = <<>> /\ keywords = <<>>) =>
        /\ pc # "raised"
        /\ ~Happened("enter_keyword")
        /\ EngineRecords = <<>>
        /\ pc = "done" => Happened("discover")

\* C8: a malformed element never aborts the page: the visit of a document
\* always reaches the end of the engine, no exception leaves it.
C8_MalformedOnlySkipped ==
    /\ pc # "raised"
    /\ pc = "done" => Happened("page_end")

\* C9: when a failure leaves the engine and is caught at the per-document
\* boundary, the visit returns no record.
C9_FailureReportsZero ==
    (pc = "done" /\ Happened("caught")) => returned = <<>>

\* A field of a Value (the Value split at "; ") is exactly "-".
HasDashField(value) == Contains("; -; ", "; " \o value \o "; ")

\* C10: no record's Value has a field that is exactly "-".
C10_NoDashField ==
    \A k \in 1..Len(worker_all_data) : ~HasDashField(worker_all_data[k].Value)

\* The header cells of a row: its <th> cells, or its <td> cells when it has
\* no <th>.
RowHasTh(row) == \E k \in 1..Len(row.cells) : row.cells[k].tag = "th"
RowHeaderCells(row) ==
    IF RowHasTh(row) THEN SelectSeq(row.cells, IsTh) ELSE row.cells

\* The labels of header cells: the stripped text, or the placeholder
\* prefix followed by the position when the text is blank.
LabelsAre(labels, cells, prefix) ==
    /\ Len(labels) = Len(cells)
    /\ \A k \in 1..Len(cells) :
          labels[k] = IF Strip(cells[k].text) = ""
                      THEN prefix \o NumStr(k) ELSE Strip(cells[k].text)

LastTheadRow == unit_table.rows[unit_table.thead]

TheadWins ==
    /\ unit_table.thead > 0
    /\ LastTheadRow.cells # <<>>

\* C11: for a table with at least one row, header inference returns the
\* labels of the last <thead> row with data_start_idx equal to the number of
\* <thead> rows whenever that row has cells, even when the table's first row
\* has <th> cells; otherwise, when the first row has <th> cells, it returns
\* their labels with data_start_idx 1; a table with neither, and a table
\* with no rows, give ([], 0).
C11_HeaderPrecedence ==
    upc = "headers" =>
        IF unit_table.rows = <<>> THEN uret = <<(<<>>), 0>>
        ELSE IF TheadWins
        THEN /\ uret[2] = unit_table.thead
             /\ LabelsAre(uret[1], RowHeaderCells(LastTheadRow), "HeadCol")
        ELSE IF RowHasTh(unit_table.rows[1])
        THEN /\ uret[2] = 1
             /\ LabelsAre(uret[1], SelectSeq(unit_table.rows[1].cells, IsTh),
                          "Row1Col")
        ELSE uret = <<(<<>>), 0>>

\* The table has two <thead> rows; its first row has <th> cells and the
\* labels returned are those of the second row.
C11_Witness ==
    /\ upc = "headers"
    /\ unit_table.thead = 2
    /\ RowHasTh(unit_table.rows[1])
    /\ unit_table.rows[1] # unit_table.rows[2]
    /\ uret = <<(<<"HeadCol1", "B">>), 2>>

\* The stripped label is a YYYY-YYYY range (of the years the catalogue uses).
YearShaped(h) ==
    \E a, b \in {"2019", "2020", "2021"} : Strip(h) = a \o "-" \o b

MultiYearInput ==
    \E k \in 2..Len(unit_headers) : YearShaped(unit_headers[k])

LabelInput ==
    /\ ~MultiYearInput
    /\ \/ unit_headers = <<>>
       \/ Len(unit_headers) = 1 /\ Strip(unit_headers[1]) = ""

ColumnarInput == ~MultiYearInput /\ ~LabelInput

IsNonEmptyRow(row) == row # <<>>

\* Some cell after the first is neither blank nor a dash.
HasValueCell(row) ==
    \E c \in 2..Len(row) : Strip(row[c]) # "" /\ Strip(row[c]) # "-"

IsAllYears(r) == r.Source = FormatSource \o " (all years)"
IsPlainSource(r) == r.Source = FormatSource
HasPair(r) == Contains(": ", r.Value)

YearPairsOf(row) ==
    LET Paired(c) == /\ c >= 2
                     /\ YearShaped(unit_headers[c])
                     /\ c <= Len(row)
                     /\ Strip(row[c]) # ""
                     /\ Strip(row[c]) # "-"
        Pair(c) == unit_headers[c] \o ": " \o Strip(row[c])
        cols == SelectSeq([c \in 1..Len(unit_headers) |-> c], Paired)
    IN  [k \in 1..Len(cols) |-> Pair(cols[k])]

\* The multi-year records of the first n data rows.
RECURSIVE YearRecordsOfFirst(_)
YearRecordsOfFirst(n) ==
    IF n = 0 THEN <<>>
    ELSE YearRecordsOfFirst(n - 1)
         \o (IF YearPairsOf(unit_rows[n]) = <<>> THEN <<>>
             ELSE <<Rec(Strip(unit_rows[n][1]),
                        Join("; ", YearPairsOf(unit_rows[n])),
                        FormatSection, FormatSource \o " (all years)")>>)

\* C13: in multi-year mode each data row yields one record whose Category
\* is row[0] and whose Value joins with "; " the pairs "year: cell" of every
\* YYYY-YYYY header, the cell being the row's cell in that header's column,
\* cells that are empty or "-" being skipped; a row without a pair yields no
\* record.
C13_YearColumnsAligned ==
    (upc = "format" /\ MultiYearInput) =>
        uret = YearRecordsOfFirst(Len(unit_rows))

\* The cells after the first that are not blank and are not "-", stripped.
IsLabelValue(v) == Strip(v) # "" /\ v # "-"
LabelValueCells(row) ==
    LET kept == SelectSeq(Tail1(row), IsLabelValue)
    IN  [k \in 1..Len(kept) |-> Strip(kept[k])]

IsGraphRecord(r) == Len(r.Source) >= 6 /\ SubSeq(r.Source, 1, 6) = "Graph "

\* The event is the emission of the records of a data table.
IsTableEmission(e) ==
    \/ e.ev \in {"deep", "regular", "fallback_deep"} /\ e.ok
    \/ e.ev = "keyword_table"

IsGraphEmission(e) == e.ev = "graph" /\ e.ok

\* The position in the document of the element the event is about.
DocPos(e) ==
    IF e.ev = "graph" THEN graph_tables[e.idx + 1] ELSE data_tables[e.idx + 1]

LastEvent == hist'[Len(hist')]

WidgetAltText(t) == Lower(Strip(Join(" ", ImageAlts(t))))

SomeTermIn(text) ==
    \E k \in 1..Len(search_terms) : Contains(Lower(search_terms[k]), text)

\* The match types under which widget number i (from 0) was matched.
MatchTypesOf(i) ==
    {matching_graphs[k].match_type :
        k \in {j \in 1..Len(matching_graphs) : matching_graphs[j].index = i}}

PlainTurn ==
    /\ pc = "proc_tables"
    /\ loop_i < Len(matching_tables)
    /\ LastEvent.ev = "regular"

TurnIndex == matching_tables[loop_i + 1].index
TurnTable == doc[data_tables[TurnIndex + 1]]
TurnHeaders == headers_cache[TurnIndex + 1][1]
TurnDataStart == headers_cache[TurnIndex + 1][2]

RowHasTdCell(row) == \E c \in 1..Len(row.cells) : row.cells[c].tag = "td"

\* The stripped texts of the <td> cells of a row.
TdTextsOf(row) ==
    [c \in 1..Len(SelectSeq(row.cells, IsTd)) |->
        Strip(SelectSeq(row.cells, IsTd)[c].text)]

\* The data rows of the table of the turn: the rows from data_start_idx on
\* that have <td> cells, as lists of cell texts.
TurnDataRows ==
    [k \in 1..Len(SelectSeq(SubSeq(TurnTable.rows, TurnDataStart + 1,
                                   Len(TurnTable.rows)), RowHasTdCell)) |->
        TdTextsOf(SelectSeq(SubSeq(TurnTable.rows, TurnDataStart + 1,
                                   Len(TurnTable.rows)), RowHasTdCell)[k])]

IsLabelled(h) == Strip(h) # ""

\* Category and Value of the header record of a header list.
HeaderBrief(headers) ==
    <<IF headers # <<>> /\ Strip(headers[1]) # "" THEN Strip(headers[1])
      ELSE "blank",
      IF SelectSeq(Tail1(headers), IsLabelled) # <<>>
      THEN Join("; ", SelectSeq(Tail1(headers), IsLabelled)) ELSE "blank",
      HeaderRowSource>>

\* Category and Value of the raw record of a data row.
RawValue(v) == IF v = "" \/ v = "-" THEN "blank" ELSE v
RawBrief(row_vals, source) ==
    <<IF row_vals[1] # "" THEN row_vals[1] ELSE "blank",
      IF Len(row_vals) > 1
      THEN Join("; ", [c \in 1..(Len(row_vals) - 1) |-> RawValue(row_vals[c + 1])])
      ELSE "blank",
      source>>

CategoryAndValue(r) == <<r.Category, r.Value>>

DeepCall == upc = "input" /\ upc' = "deep"

\* C19: whenever deep_search_in_table_static returns False (no row matched,
\* the table has no rows, or reading it failed), the shared record list is
\* exactly what it was before the call.
C19_NothingOnFailure ==
    [][(DeepCall /\ uret' = FALSE) => worker_all_data' = worker_all_data]_vars

\* The search of a table that cannot be read returned False and left the
\* record list, which was not empty, as it was.
C19_Witness ==
    /\ upc = "deep"
    /\ uret = FALSE
    /\ unit_table.fault = "children"
    /\ worker_all_data = <<SearchSeparator("Earlier section")>>

\* The hits of row k of the table on the query, on the row's full_text and
\* simple_text.
RowValsOf(k) == Map(SelectSeq(unit_table.rows[k].cells, IsTd), CellVal)
RowTermHitOf(k) ==
    RowTermHit(FullText(headers_cache[1][1], RowValsOf(k)),
               SimpleText(RowValsOf(k)), search_terms)
RowKeyHitOf(k) ==
    RowKeyHit(FullText(headers_cache[1][1], RowValsOf(k)),
              SimpleText(RowValsOf(k)), keywords)

\* Row k (from 1) is at or after data_start_idx, has a <td> cell and matches.
IsMatchedDataRow(k) ==
    /\ unit_table.fault \notin {"stale", "children"}
    /\ k > headers_cache[1][2]
    /\ RowHasTdCell(unit_table.rows[k])
    /\ RowTermHitOf(k) \/ RowKeyHitOf(k)

\* The records of the matched rows among the first n rows, in row order.
RECURSIVE MatchedRecordsOfFirst(_)
MatchedRecordsOfFirst(n) ==
    IF n = 0 THEN <<>>
    ELSE MatchedRecordsOfFirst(n - 1)
         \o (IF IsMatchedDataRow(n)
             THEN MatchedRowRecs(unit_table.rows, n, RowValsOf(n),
                                 RowTermHitOf(n), DeepSection)
             ELSE <<>>)

\* C20: deep search returns True if and only if some row at or after
\* data_start_idx that has a <td> cell matched; it then appends, in this
\* order, one section marker, one header record (Category the first header
\* label, Value the other labels joined by "; ", "blank" for what is
\* absent) and the records of the matched rows in row order.
C20_TrueIffRowMatched ==
    [][DeepCall =>
          /\ uret' = (\E k \in 1..Len(unit_table.rows) : IsMatchedDataRow(k))
          /\ uret' = TRUE =>
                /\ Len(Appended) >= 3
                /\ Brief(Appended[1])
                     = <<"--- " \o DeepSection \o " - SEARCH RESULTS IN TABLE ---",
                         "", "Deep Table Search Section Header">>
                /\ Brief(Appended[2]) = HeaderBrief(headers_cache[1][1])
                /\ SubSeq(Appended, 3, Len(Appended))
                     = MatchedRecordsOfFirst(Len(unit_table.rows))
    ]_vars

\* The search skipped the <thead> row and the <th> row that hold the term
\* and returned True for the last row.
C20_Witness ==
    /\ upc = "deep"
    /\ uret = TRUE
    /\ unit_table = HeaderMatchTable
    /\ search_terms = <<"retention">>
    /\ worker_all_data[Len(worker_all_data)].Category = "Art"

(***************************************************************************)
(* One call of determine_section_static: every list of up to MaxMarkers    *)
(* markers of the catalogue, every allow-list and element position of the  *)
(* catalogues, the element's position readable or not.                     *)
(***************************************************************************)
MaxMarkers == 3

SectionMarkerCatalogue ==
    {Marker("Costs", 5), Marker("Costs", 15), Marker(" Aid ", 15),
     Marker("Aid", 25), Marker("Aid", 5), Marker("Other", 15),
     UnreadableMarker("Costs", 15)}

SectionTitleLists == {<<>>, <<"Costs", "Aid">>, <<"Aid">>}

ElementPositions == {0, 15, 20}

InitSection ==
    /\ TextIdle
    /\ FirstRun /\ WorkerIdle
    /\ unit_table = Table("", "", 0, <<>>)
    /\ unit_headers = <<>> /\ unit_rows = <<>>
    /\ upc = "input" /\ uret = <<>>
    /\ element_y \in ElementPositions
    /\ element_ok \in BOOLEAN
    /\ markers \in SeqsUpTo(SectionMarkerCatalogue, MaxMarkers)
    /\ section_titles_to_use \in SectionTitleLists
    /\ doc = <<>> /\ institution_info = <<>>
    /\ search_terms = <<>> /\ keywords = <<>>
    /\ worker_all_data = <<>> /\ pc = "off"
    /\ data_tables = <<>> /\ graph_tables = <<>> /\ headers_cache = <<>>
    /\ matching_tables = <<>> /\ matching_graphs = <<>>
    /\ data_added = FALSE /\ deep_found = FALSE /\ kw_tables = <<>>
    /\ loop_i = 0 /\ returned = <<>> /\ hist = <<>>

\* determine_section_static(driver, element, section_titles, ...)
LocateSection ==
    /\ upc = "input"
    /\ uret' = determine_section_static(element_ok, element_y,
                                        section_titles_to_use, markers)
    /\ upc' = "section"
    /\ UNCHANGED <<unit_table, unit_headers, unit_rows, textVars, rerunVars,
                   sectVars, workerVars, engineVars>>

NextSection ==
    \/ LocateSection

SpecSection == InitSection /\ [][NextSection]_vars

\* Marker k is in the allow-list, its position can be read and it is at or
\* above the element.
Qualifies(k) ==
    /\ \E t \in 1..Len(section_titles_to_use) :
          section_titles_to_use[t] = Strip(markers[k].text)
    /\ markers[k].readable
    /\ element_y - markers[k].y >= 0

QualifyingMarkers == {k \in 1..Len(markers) : Qualifies(k)}

\* C22: determine_section_static returns the (stripped) text of the marker
\* that is in the allow-list, at or above the element and at the smallest
\* distance from it, the first in page order among those at that distance;
\* when no marker qualifies, or the element's position cannot be read, it
\* returns an "Unknown Section" sentinel that tells the reason.
C22_ClosestPrecedingMarker ==
    upc = "section" =>
       IF ~element_ok THEN uret = "Unknown Section (JS Error)"
       ELSE IF QualifyingMarkers = {}
       THEN uret = (IF section_titles_to_use = <<>>
                    THEN "Unknown Section (No Titles Provided)"
                    ELSE IF markers = <<>>
                    THEN "Unknown Section (No Headers On Page)"
                    ELSE "Unknown Section (No Match)")
       ELSE \E k \in QualifyingMarkers :
               /\ uret = Strip(markers[k].text)
               /\ \A j \in QualifyingMarkers :
                     /\ markers[k].y >= markers[j].y
                     /\ markers[j].y = markers[k].y => k <= j

\* Two allow-listed markers at the same smallest distance above the element,
\* and a third below it: the first of the two was returned.
C22_Witness ==
    /\ upc = "section" /\ element_ok /\ element_y = 20
    /\ section_titles_to_use = <<"Costs", "Aid">>
    /\ markers = <<Marker(" Aid ", 15), Marker("Costs", 15), Marker("Aid", 25)>>
    /\ uret = "Aid"

(***************************************************************************)
(* Group headers and their detail rows in one deep search call.            *)
(***************************************************************************)
IsGroupHeaderRow(row) == Contains("subrow", row.cls)

\* The first group-header row after row k, or one past the last row.
NextGroupRow(k) ==
    IF \E j \in (k + 1)..Len(unit_table.rows) :
          IsGroupHeaderRow(unit_table.rows[j])
    THEN CHOOSE j \in (k + 1)..Len(unit_table.rows) :
            /\ IsGroupHeaderRow(unit_table.rows[j])
            /\ \A i \in (k + 1)..(j - 1) : ~IsGroupHeaderRow(unit_table.rows[i])
    ELSE Len(unit_table.rows) + 1

\* The rows of the group of row k that have <td> cells.
GroupDetailRows(k) ==
    {j \in (k + 1)..(NextGroupRow(k) - 1) : RowHasTdCell(unit_table.rows[j])}

MatchedGroupRows ==
    {k \in 1..Len(unit_table.rows) :
        IsMatchedDataRow(k) /\ IsGroupHeaderRow(unit_table.rows[k])}

GroupRecordPositions ==
    {p \in 1..Len(Appended) : IsGroupRecord(Appended[p])}

\* The i-th smallest member of a set of numbers.
NthOf(S, i) == CHOOSE x \in S : Cardinality({y \in S : y < x}) = i - 1

\* Category, Value and Source of the detail record of a row.
DetailBrief(row) ==
    <<IndentMarker \o TdTextsOf(row)[1],
      Join("; ", [c \in 1..(Len(TdTextsOf(row)) - 1) |->
                    RawValue(TdTextsOf(row)[c + 1])]),
      "DeepSearch - Subrow Detail">>

\* C21: in one deep search, the group records appended are those of the
\* matched group-header rows, in row order; each is a record with Category
\* the row's first cell and Value "", and is followed at once by one detail
\* record for each later row that has <td> cells, in row order, up to but not
\* including the next group-header row or the end of the table; the record
\* after these, if any, is not a detail record.
C21_GroupAndDetails ==
    [][DeepCall =>
          /\ Cardinality(GroupRecordPositions) = Cardinality(MatchedGroupRows)
          /\ \A i \in 1..Cardinality(MatchedGroupRows) :
                /\ Brief(Appended[NthOf(GroupRecordPositions, i)])
                     = <<RowValsOf(NthOf(MatchedGroupRows, i))[1], "",
                         "DeepSearch - Subrow Group">>
                /\ NthOf(GroupRecordPositions, i)
                     + Cardinality(GroupDetailRows(NthOf(MatchedGroupRows, i)))
                       <= Len(Appended)
                /\ \A d \in 1..Cardinality(GroupDetailRows(NthOf(MatchedGroupRows, i))) :
                      Brief(Appended[NthOf(GroupRecordPositions, i) + d])
                        = DetailBrief(unit_table.rows[
                            NthOf(GroupDetailRows(NthOf(MatchedGroupRows, i)), d)])
                /\ NthOf(GroupRecordPositions, i)
                     + Cardinality(GroupDetailRows(NthOf(MatchedGroupRows, i)))
                       < Len(Appended)
                   => ~IsDetailRecord(Appended[
                         NthOf(GroupRecordPositions, i)
                         + Cardinality(GroupDetailRows(NthOf(MatchedGroupRows, i)))
                         + 1])
    ]_vars

\* Three group headers matched: the first group passed over a row without
\* <td>, the second gave the detail record of "Grants", the third is the last
\* row of the table and has no detail record.
C21_Witness ==
    /\ upc = "deep" /\ uret = TRUE
    /\ unit_table = GroupEdgeTable
    /\ search_terms = <<"Enrollment">>
    /\ Len(SelectSeq(worker_all_data, IsGroupRecord)) = 3
    /\ \E k \in 1..Len(worker_all_data) :
          Brief(worker_all_data[k])
            = <<IndentMarker \o "Grants", "blank", "DeepSearch - Subrow Detail">>
    /\ Brief(worker_all_data[Len(worker_all_data)])
          = <<"Enrollment abroad", "", "DeepSearch - Subrow Group">>

(***************************************************************************)
(* The Source field of the formatter's records.                            *)
(***************************************************************************)
\* C23 (as amended): in label-based and standard columnar mode the Source
\* of every record the formatter emits is the caller's source_description
\* unchanged; in multi-year mode it is source_description followed by
\* " (all years)".
C23_SourceByMode ==
    upc = "format" =>
        \A k \in 1..Len(uret) :
           uret[k].Source = (IF MultiYearInput
                             THEN FormatSource \o " (all years)"
                             ELSE FormatSource)

\* Records were emitted in multi-year mode for two data rows.
C23_Witness ==
    /\ upc = "format"
    /\ unit_headers = <<"Program", "2019-2020", "2020-2021">>
    /\ Len(unit_rows) = 2
    /\ Len(uret) = 2
    /\ uret[2].Source = FormatSource \o " (all years)"

\* C23 as stated: in every mode the Source of each record is the caller's
\* source_description unchanged.
C23_Original ==
    upc = "format" => \A k \in 1..Len(uret) : uret[k].Source = FormatSource

(***************************************************************************)
(* Standard columnar mode.                                                 *)
(***************************************************************************)
\* The label of the cell at index i (from 0) of a row: the header at that
\* index, or "Col{i}" when the header is missing or blank.
ColumnLabel(i) ==
    IF i < Len(unit_headers) /\ Strip(unit_headers[i + 1]) # ""
    THEN Strip(unit_headers[i + 1])
    ELSE <<"Col1", "Col2", "Col3">>[i]

\* The "label: cell" pairs of a row, for the cells at index >= 1 that are
\* neither empty nor a dash.
ColumnPairsOf(row) ==
    LET Valued(c) == c >= 2 /\ Strip(row[c]) # "" /\ Strip(row[c]) # "-"
        cols == SelectSeq([c \in 1..Len(row) |-> c], Valued)
    IN  [k \in 1..Len(cols) |->
            ColumnLabel(cols[k] - 1) \o ": " \o Strip(row[cols[k]])]

\* C24: in standard columnar mode the records are, in row order, one for
\* each data row that has a cell at index >= 1 which is neither empty nor
\* "-" (texts taken without surrounding white space): Category is row[0]
\* and Value joins with "; " the "{label}: {cell}" of every such cell, the
\* label being the header at the cell's index, or "Col{index}" when that
\* header is missing or blank; a row without such a cell gives no record.
C24_StandardColumnar ==
    (upc = "format" /\ ColumnarInput) =>
        /\ Len(uret) = Len(SelectSeq(unit_rows, HasValueCell))
        /\ \A k \in 1..Len(uret) :
              uret[k] = Rec(Strip(SelectSeq(unit_rows, HasValueCell)[k][1]),
                            Join("; ", ColumnPairsOf(
                                           SelectSeq(unit_rows, HasValueCell)[k])),
                            FormatSection, FormatSource)

\* A row of four cells under three headers, the last of them blank: the
\* third cell took the placeholder of the blank header, the fourth the
\* placeholder of the missing one; the row without a value gave no record.
C24_Witness ==
    /\ upc = "format"
    /\ unit_headers = <<"Name", "Amount", "">>
    /\ unit_rows = << <<" Transfer ", "-", "">>, <<"Long", "1", "2", "3">> >>
    /\ uret = <<Rec("Long", "Amount: 1; Col2: 2; Col3: 3", FormatSection,
                    FormatSource)>>

(***************************************************************************)
(* The header cache of one visit.                                          *)
(***************************************************************************)
\* The steps of the caching loop that ran header inference for index i.
CacheEventsOf(i) ==
    {k \in 1..Len(hist) : hist[k].ev = "cache" /\ hist[k].idx = i}

\* The caching loop has gone through every data table.
CacheBuilt == Happened("match_tables")

\* A step that looked the cache up for an index.
IsLookupEvent(e) ==
    e.ev \in {"deep", "regular", "fallback_deep", "keyword_table"}

\* The index and the element of a selected table denote the same table, one
\* whose headers are in the cache.
SameTable(info) ==
    /\ info.index < Len(headers_cache)
    /\ data_tables[info.index + 1] = info.element

\* C25: in one visit header inference runs at most once for a data table,
\* and once for each when the caching loop has gone through them; the
\* entry of index i of the cache is what inference gives on the i-th data
\* table; and every table selected for a lookup of the cache (matched in
\* the primary stage, or selected by the keyword fallback, or reached by the
\* loop of the deep-search fallback) carries an index that denotes, among
\* the data tables, the element it was selected as.
C25_CachedOncePerTable ==
    /\ Len(headers_cache) <= Len(data_tables)
    /\ CacheBuilt => Len(headers_cache) = Len(data_tables)
    /\ \A i \in 0..Len(doc) :
          Cardinality(CacheEventsOf(i)) = (IF i < Len(headers_cache) THEN 1 ELSE 0)
    /\ \A i \in 1..Len(headers_cache) :
          headers_cache[i]
            = get_table_headers_and_data_start_idx_static(
                  doc[data_tables[i]], doc[data_tables[i]].rows)
    /\ \A k \in 1..Len(matching_tables) : SameTable(matching_tables[k])
    /\ \A k \in 1..Len(kw_tables) : SameTable(kw_tables[k])
    /\ \A k \in 1..Len(hist) :
          IsLookupEvent(hist[k]) => hist[k].idx < Len(headers_cache)

\* A page whose first table is a graph widget: the data table is second in
\* the page and has index 0 among the data tables; its rows were searched
\* with the headers cached for index 0.
C25_Witness ==
    /\ pc = "done"
    /\ doc = <<PercentGraph, RetentionTable>>
    /\ search_terms = <<"retention">>
    /\ headers_cache = << <<(<<"Category", "2020-2021", "2021-2022">>), 1>> >>
    /\ \E k \in 1..Len(hist) : hist[k] = Ev("deep", 0, TRUE)

(***************************************************************************)
(* The keyword fallback.                                                   *)
(***************************************************************************)
\* The step is the turn of the keyword fallback on a selected table.
KeywordTurn == pc = "keyword_emit" /\ loop_i < Len(kw_tables)

\* A record of a data row of the plain emission of data table idx (from 0).
IsDataRowRecordOf(r, idx) ==
    r.Source = <<"Full Table 1", "Full Table 2", "Full Table 3">>[idx + 1]

\* C26: in the keyword fallback, the section-boundary marker appended for a
\* selected table is followed, in the same turn, by at least one data-row
\* record of that table.
C26_MarkerHasContent ==
    [][KeywordTurn =>
          /\ Appended # <<>>
          /\ Appended[1] = SearchSeparator(kw_tables[loop_i + 1].section)
          /\ \E k \in 2..Len(Appended) :
                IsDataRowRecordOf(Appended[k], kw_tables[loop_i + 1].index)
    ]_vars

(***************************************************************************)
(* How many records one row gives in one deep search call.                 *)
(***************************************************************************)
\* Category, Value and Source of the records row k can give: as a group
\* header, as a detail row, as a matched row.
RowBriefs(k) ==
    {<<RowValsOf(k)[1], "", "DeepSearch - Subrow Group">>,
     DetailBrief(unit_table.rows[k]),
     <<RowValsOf(k)[1],
       Join("; ", [c \in 1..(Len(RowValsOf(k)) - 1) |->
                     RawValue(RowValsOf(k)[c + 1])]),
       "DeepSearch - Term Match">>,
     <<RowValsOf(k)[1],
       Join("; ", [c \in 1..(Len(RowValsOf(k)) - 1) |->
                     RawValue(RowValsOf(k)[c + 1])]),
       "DeepSearch - Keyword Match">>}

\* The positions of the appended records that are records of row k.  (No
\* two rows of a table of the catalogue have the same cells.)
RecordsOfRow(k) ==
    {p \in 1..Len(Appended) : Brief(Appended[p]) \in RowBriefs(k)}

\* C27: within one deep search call each table row gives at most one
\* record: a row appended as a detail record of a matched group header is
\* not appended again as a matched row.
C27_OneRecordPerRow ==
    [][DeepCall =>
          \A k \in 1..Len(unit_table.rows) :
             RowHasTdCell(unit_table.rows[k])
                => Cardinality(RecordsOfRow(k)) <= 1
    ]_vars

(***************************************************************************)
(* The fallback after a primary stage that appended nothing.               *)
(***************************************************************************)
\* No step of the primary stage appended a record: every deep search and
\* plain emission of a matched table returned False and no matched widget
\* gave a record.
PrimaryAppendedNothing ==
    \A k \in 1..Len(hist) :
       hist[k].ev \in {"deep", "regular", "graph"} => ~hist[k].ok

\* The deep search of handle_no_matches_static ran on every data table.
FallbackRanOnEveryTable ==
    /\ Happened("enter_fallback")
    /\ \A i \in 1..Len(data_tables) :
          \E k \in 1..Len(hist) :
             hist[k].ev = "fallback_deep" /\ hist[k].idx = i - 1

SearchLabel(i) ==
    IF i <= Len(headers_cache[1][1]) /\ headers_cache[1][1][i] # ""
    THEN headers_cache[1][1][i]
    ELSE <<"Col0", "Col1", "Col2", "Col3">>[i]

\* The cell texts of the rows header inference reads the labels from.
HeaderCellTexts ==
    UNION {{Strip(unit_table.rows[r].cells[c].text) :
               c \in 1..Len(unit_table.rows[r].cells)} :
           r \in 1..(IF unit_table.thead > 0 THEN unit_table.thead ELSE 1)}

\* The label when it is text of the document, else nothing.
DocumentLabel(i) ==
    IF /\ i <= Len(headers_cache[1][1])
       /\ headers_cache[1][1][i] \in HeaderCellTexts \ {""}
    THEN headers_cache[1][1][i]
    ELSE ""

\* Row k as searched: each cell value after its label; the cell values alone;
\* and each cell value after its label where the label is document text.
SearchedFullText(k) ==
    Join(" ", [i \in 1..Len(RowValsOf(k)) |->
                  SearchLabel(i) \o " " \o RowValsOf(k)[i]])
SearchedSimpleText(k) == Join(" ", RowValsOf(k))
DocumentTextOfRow(k) ==
    Join(" ", [i \in 1..Len(RowValsOf(k)) |->
                  DocumentLabel(i) \o " " \o RowValsOf(k)[i]])

\* Two characters are the same letter in either case, or the same character.
SameCharacter(c, d) ==
    \/ c = d
    \/ \E n \in 1..26 :
          {c, d} = {SubSeq("abcdefghijklmnopqrstuvwxyz", n, n),
                    SubSeq("ABCDEFGHIJKLMNOPQRSTUVWXYZ", n, n)}

\* word stands somewhere in text when case is ignored.
FoundIgnoringCase(word, text) ==
    \E off \in 0..(Len(text) - Len(word)) :
        \A j \in 1..Len(word) :
            SameCharacter(SubSeq(word, j, j), SubSeq(text, off + j, off + j))

\* The query is found in a text: some term occurs in it, or there are
\* keywords and all of them occur in it.
TermFoundIn(text) ==
    \E t \in 1..Len(search_terms) : FoundIgnoringCase(search_terms[t], text)
KeywordsFoundIn(text) ==
    /\ keywords # <<>>
    /\ \A w \in 1..Len(keywords) : FoundIgnoringCase(keywords[w], text)

\* Row k was appended as a matched row or a matched group header.
RowWasMatched(k) ==
    \E p \in 1..Len(Appended) :
       /\ Appended[p].Category = RowValsOf(k)[1]
       /\ Appended[p].Source \in {"DeepSearch - Term Match",
                                  "DeepSearch - Keyword Match",
                                  "DeepSearch - Subrow Group"}

\* Row k is a row the search reads: at or after data_start_idx, with <td>.
IsSearchedRow(k) ==
    /\ unit_table.fault \notin {"stale", "children"}
    /\ k > headers_cache[1][2]
    /\ RowHasTdCell(unit_table.rows[k])

\* C29 (as amended): a row is matched in deep search exactly when a term
\* occurs, or all the keywords occur, ignoring case, in the row's cell
\* values joined by blanks (a cell value being the cell's text, or the alt
\* text of its image for an empty cell) or in the row's cell values each
\* preceded by its label, the label being the cached header of the column
\* or, for a missing or empty header, the placeholder "Col{i}".  The
\* placeholders are part of the searched text.
C29_MatchedOnSearchedText ==
    [][DeepCall =>
          \A k \in 1..Len(unit_table.rows) :
             IsSearchedRow(k) =>
                (RowWasMatched(k) <=>
                    \/ TermFoundIn(SearchedFullText(k))
                    \/ TermFoundIn(SearchedSimpleText(k))
                    \/ KeywordsFoundIn(SearchedFullText(k))
                    \/ KeywordsFoundIn(SearchedSimpleText(k)))
    ]_vars

\* The rows of the table without headers matched the term "col1", which
\* stands in no cell: it is the placeholder of the second column.
C29_Witness ==
    /\ upc = "deep" /\ uret = TRUE
    /\ unit_table = LabelTable
    /\ search_terms = <<"col1">> /\ keywords = <<>>
    /\ \E k \in 1..Len(worker_all_data) :
          Brief(worker_all_data[k])
            = <<"Total cost", "$25,000", "DeepSearch - Term Match">>

\* C29 as stated: a row is matched only if a term occurs, or all the
\* keywords occur, in text taken from the document: the row's cell values,
\* alone or each preceded by the header label of its column where that
\* label is the text of a header cell.
C29_Original ==
    [][DeepCall =>
          \A k \in 1..Len(unit_table.rows) :
             (IsSearchedRow(k) /\ RowWasMatched(k)) =>
                \/ TermFoundIn(DocumentTextOfRow(k))
                \/ TermFoundIn(SearchedSimpleText(k))
                \/ KeywordsFoundIn(DocumentTextOfRow(k))
                \/ KeywordsFoundIn(SearchedSimpleText(k))
    ]_vars

(***************************************************************************)
(* The worker from its first line to its return.                           *)
(***************************************************************************)
\* The browser session was created.
SessionCreated == \E k \in 1..Len(hist) : hist[k] = Ev("launch", 0, TRUE)

\* Something raised during the worker: the launch, the page load, or the
\* extraction (caught at the page or by the worker).
WorkerFailed ==
    \E k \in 1..Len(hist) :
       /\ hist[k].ev \in {"launch", "get_raises", "timeout", "caught",
                           "worker_except"}
       /\ ~hist[k].ok

\* C30: on every path through the worker the session, once created, is
\* quit exactly once before the worker returns (and never quit when it was
\* not created); the worker returns through its return statements; and
\* after a failure the data frame it returns is empty.
C30_WorkerLifecycle ==
    /\ quits <= 1
    /\ pc = "finished" =>
          /\ quits = (IF SessionCreated THEN 1 ELSE 0)
          /\ SessionCreated => worker_driver = "quit"
          /\ Happened("package") \/ Happened("worker_except")
          /\ WorkerFailed => returned = <<>>

====
